---- MODULE Spec2Model ----
(***************************************************************************)
(* Overhead flights monitor: the tile cache, the snapshot cache            *)
(* (FlightClient), and the quiz round orchestrator (Game) of the two       *)
(* front-end variants, go_version (ebiten) and go_raylib (raylib).         *)
(*                                                                         *)
(* A build is one of the two variants; `variant` is fixed by Init.  The    *)
(* components have specifications of their own (SpecTile, SpecFetch,       *)
(* SpecSelect, SpecRound, SpecRace, SpecOptions), all over the same        *)
(* variables.                                                              *)
(***************************************************************************)
EXTENDS Integers, Sequences, FiniteSets, TLC

VARIABLES
    variant,        \* "ebiten" (go_version) or "raylib" (go_raylib)
    reader,         \* the call taken access by access (pickNewTarget, checkPlaneClick, the refresher's re-binding)
    guessCall,      \* the last call of Game.guess: <<>>, or <<[city, elapsed, accepted]>>
    parsed,         \* the altitude and velocity of the last record parsed: <<>>, or <<[altM, velMs, Altitude, Velocity]>>
    scrapeCall,     \* the last call of Scraper.FetchFlightDetails: <<>>, or <<[page, details, err]>>
    drawCall,       \* the last call of Game.drawMap: <<>>, or <<[zoom, centerX, centerY, tiles]>>
    currentUser,    \* g.currentUser
    usersFile,      \* users.json: per name <<>> or <<UserStats>>
    scoresFile,     \* scores.json: the high-score list
    \* ---- TileLoader
    cache,          \* tl.cache: the set of keys that hold an image
    pending,        \* tl.pending (raylib only): the set of keys flagged pending
    responseChan,   \* tl.responseChan (raylib only): queue of TileResponse
    fetchStarted,   \* per key: fetchTile goroutines launched, before their cache re-check (ebiten)
    fetching,       \* per key: fetchTile goroutines whose HTTP request is in flight
    getTileRet,     \* what the last GetTile call returned: "none" | "image" | "empty"
    \* ---- clock and FlightClient
    now,            \* the wall clock, in seconds
    wake,           \* when refreshFlights' time.Sleep returns
    fc_cache,       \* fc.cache
    lastFetch,      \* fc.lastFetch
    token,          \* fc.token
    clientID,       \* fc.clientID
    clientSec,      \* fc.clientSec
    fetchRet,       \* the slice the last FetchFlights call returned (<<>> is nil)
    fetchErr,       \* the error it returned ("none" is nil)
    netCalls,       \* the requests that call issued, in order
    \* ---- Game: snapshot and selection
    flights,        \* g.flights
    selectedPlane,  \* g.selectedPlane: <<>> is nil, <<f>> points to a copy of f
    targetPlane,    \* g.targetPlane
    \* ---- Game: selection details and the quiz round
    state,          \* g.state
    resolvedDetails, \* g.resolvedDetails: <<>> is nil
    resolving,      \* g.resolving
    score,          \* g.score
    round,          \* g.round
    roundStartTime, \* g.roundStartTime
    questionText,   \* g.questionText
    options,        \* g.options
    correctOption,  \* g.correctOption
    wrongGuess,     \* g.wrongGuess
    showResult,     \* g.showResult
    resultCorrect,  \* g.resultCorrect
    resultStartTime, \* g.resultStartTime
    airports,       \* g.airports
    airportsFile,   \* the list persisted in airports.json
    \* ---- goroutines and timers in flight
    selectTasks,    \* per callsign: resolver goroutines started by selectPlane
    roundTasks,     \* per transponder id of the target: resolver goroutines started by pickNewTarget
    saveTasks,      \* the labels still to be saved by a `go func() { SaveAirport...}`
    timers          \* pending time.AfterFunc(1s, g.pickNewTarget)

tileVars == <<cache, pending, responseChan, fetchStarted, fetching, getTileRet>>
fcVars == <<fc_cache, lastFetch, token, clientID, clientSec, fetchRet, fetchErr, netCalls>>
clockVars == <<now, wake>>
snapVars == <<flights, selectedPlane, targetPlane>>

detailVars == <<resolvedDetails, resolving>>
roundVars == <<state, score, round, roundStartTime, questionText, options, correctOption,
               wrongGuess, showResult, resultCorrect, resultStartTime>>
storeVars == <<airports, airportsFile>>
taskVars == <<selectTasks, roundTasks, saveTasks, timers>>
gameVars == <<detailVars, roundVars, storeVars, taskVars>>

persistVars == <<currentUser, usersFile, scoresFile>>

vars == <<variant, reader, guessCall, scrapeCall, parsed, drawCall, persistVars, tileVars, clockVars, fcVars, snapVars, gameVars>>

Variants == {"ebiten", "raylib"}

(***************************************************************************)
(* Tile cache                                                              *)
(***************************************************************************)

\* bounds of the tile model
MaxTileX == 1
MaxFetches == 2

TileZoom == 10
ChanCap == 10

TileKeys == [Z : {TileZoom}, X : 0..MaxTileX, Y : {0}]

\* what the tile server's answer can be for one request
\*   "neterr"  httpClient.Get fails
\*   "readerr" the body cannot be read (raylib: io.ReadAll)
\*   "bad"     bytes that do not decode to an image
\*   "png"     a good image
FetchOutcomes == {"neterr", "readerr", "bad", "png"}

TileResponse(k, d) == [Key |-> k, Data |-> d]

NewTileLoader ==
    /\ cache = {}
    /\ pending = {}
    /\ responseChan = <<>>
    /\ fetchStarted = [k \in TileKeys |-> 0]
    /\ fetching = [k \in TileKeys |-> 0]
    /\ getTileRet = "none"

\* go_raylib TileLoader.GetTile
GetTileRaylib(k) ==
    IF k \in cache
    THEN /\ getTileRet' = "image"
         /\ UNCHANGED <<cache, pending, responseChan, fetchStarted, fetching>>
    ELSE IF k \in pending
    THEN /\ getTileRet' = "empty"
         /\ UNCHANGED <<cache, pending, responseChan, fetchStarted, fetching>>
    ELSE /\ pending' = pending \cup {k}
         /\ fetching' = [fetching EXCEPT ![k] = @ + 1]   \* go tl.fetchTile
         /\ getTileRet' = "empty"
         /\ UNCHANGED <<cache, responseChan, fetchStarted>>

\* go_version TileLoader.GetTile: no pending set
GetTileEbiten(k) ==
    IF k \in cache
    THEN /\ getTileRet' = "image"
         /\ UNCHANGED <<cache, pending, responseChan, fetchStarted, fetching>>
    ELSE /\ fetchStarted[k] + fetching[k] < MaxFetches   \* bound on live goroutines
         /\ fetchStarted' = [fetchStarted EXCEPT ![k] = @ + 1]   \* go tl.fetchTile
         /\ getTileRet' = "empty"
         /\ UNCHANGED <<cache, pending, responseChan, fetching>>

GetTile_Waits(k) ==
    /\ cache' = cache \cup {k}
    /\ getTileRet' = "image"
    /\ UNCHANGED <<pending, responseChan, fetchStarted, fetching>>
    /\ UNCHANGED <<variant, drawCall, scrapeCall, parsed, reader, guessCall, persistVars, clockVars, fcVars, snapVars, gameVars>>

GetTile(k) ==
    /\ IF variant = "raylib" THEN GetTileRaylib(k) ELSE GetTileEbiten(k)
    /\ UNCHANGED <<variant, drawCall, scrapeCall, parsed, reader, guessCall, persistVars, clockVars, fcVars, snapVars, gameVars>>

\* go_version fetchTile, first part: "Check cache again before fetching"
fetchTileRecheck(k) ==
    /\ variant = "ebiten"
    /\ fetchStarted[k] > 0
    /\ fetchStarted' = [fetchStarted EXCEPT ![k] = @ - 1]
    /\ fetching' = IF k \in cache THEN fetching
                   ELSE [fetching EXCEPT ![k] = @ + 1]
    /\ UNCHANGED <<variant, drawCall, scrapeCall, parsed, reader, guessCall, persistVars, cache, pending, responseChan, getTileRet>>
    /\ UNCHANGED <<clockVars, fcVars, snapVars, gameVars>>

\* go_version fetchTile, second part: the request returns
fetchTileEbitenDone(k, out) ==
    /\ fetching' = [fetching EXCEPT ![k] = @ - 1]
    /\ cache' = IF out = "png" THEN cache \cup {k} ELSE cache
    /\ UNCHANGED <<pending, responseChan, fetchStarted, getTileRet>>

\* a fetch task that stores its tile in the cache itself
fetchTileRaylibDone_WritesCache(k, out) ==
    IF out \in {"neterr", "readerr"}
    THEN /\ pending' = pending \ {k}
         /\ fetching' = [fetching EXCEPT ![k] = @ - 1]
         /\ UNCHANGED <<cache, responseChan, fetchStarted, getTileRet>>
    ELSE /\ cache' = IF out = "png" THEN cache \cup {k} ELSE cache
         /\ fetching' = [fetching EXCEPT ![k] = @ - 1]
         /\ UNCHANGED <<pending, responseChan, fetchStarted, getTileRet>>

\* go_raylib fetchTile: the request returns
fetchTileRaylibDone(k, out) ==
    IF out \in {"neterr", "readerr"}
    THEN /\ pending' = pending \ {k}
         /\ fetching' = [fetching EXCEPT ![k] = @ - 1]
         /\ UNCHANGED <<cache, responseChan, fetchStarted, getTileRet>>
    ELSE /\ Len(responseChan) < ChanCap      \* the send blocks on a full channel
         /\ responseChan' = Append(responseChan, TileResponse(k, out))
         /\ fetching' = [fetching EXCEPT ![k] = @ - 1]
         /\ UNCHANGED <<cache, pending, fetchStarted, getTileRet>>

fetchTile(k, out) ==
    /\ fetching[k] > 0
    /\ IF variant = "raylib" THEN fetchTileRaylibDone(k, out)
       ELSE /\ out # "readerr"          \* image.Decode reads the body itself
            /\ fetchTileEbitenDone(k, out)
    /\ UNCHANGED <<variant, drawCall, scrapeCall, parsed, reader, guessCall, persistVars, clockVars, fcVars, snapVars, gameVars>>

\* go_raylib TileLoader.Update: the drain loop over everything queued.
\* A response that does not decode is skipped by `continue`, before the
\* delete(tl.pending, ...) of the success path.
RECURSIVE DrainCache(_, _)
DrainCache(ch, c) ==
    IF ch = <<>> THEN c
    ELSE DrainCache(Tail(ch), IF Head(ch).Data = "png" THEN c \cup {Head(ch).Key} ELSE c)

RECURSIVE DrainPending(_, _)
DrainPending(ch, p) ==
    IF ch = <<>> THEN p
    ELSE DrainPending(Tail(ch), IF Head(ch).Data = "png" THEN p \ {Head(ch).Key} ELSE p)

\* a drain that leaves a full queue alone
Update_SkipsFullQueue ==
    /\ variant = "raylib"
    /\ responseChan # <<>>
    /\ Len(responseChan) < ChanCap
    /\ cache' = DrainCache(responseChan, cache)
    /\ pending' = DrainPending(responseChan, pending)
    /\ responseChan' = <<>>
    /\ UNCHANGED <<variant, drawCall, scrapeCall, parsed, reader, guessCall, persistVars, fetchStarted, fetching, getTileRet>>
    /\ UNCHANGED <<clockVars, fcVars, snapVars, gameVars>>

\* go_raylib TileLoader.Update
Update ==
    /\ variant = "raylib"
    /\ responseChan # <<>>
    /\ cache' = DrainCache(responseChan, cache)
    /\ pending' = DrainPending(responseChan, pending)
    /\ responseChan' = <<>>
    /\ UNCHANGED <<variant, drawCall, scrapeCall, parsed, reader, guessCall, persistVars, fetchStarted, fetching, getTileRet>>
    /\ UNCHANGED <<clockVars, fcVars, snapVars, gameVars>>

\* one row of tiles, one more than the response queue holds
QueueKeys == [Z : {TileZoom}, X : 0..ChanCap, Y : {0}]

\* drawMap asks for the tiles of the row from left to right
drawTile(k) ==
    /\ \A j \in QueueKeys : j.X < k.X => j \in cache \cup pending
    /\ GetTile(k)

\* the fetch task of k has its image and sends it (the answers arrive in the
\* order of the requests)
sendTile(k) ==
    /\ \A j \in QueueKeys : j.X < k.X => fetching[j] = 0
    /\ fetchTile(k, "png")

\* the fetch task of k stands at its send and the queue is full
Blocked(k) == fetching[k] > 0 /\ Len(responseChan) = ChanCap

TileLiveNext ==
    \/ \E k \in QueueKeys : drawTile(k)
    \/ \E k \in QueueKeys : sendTile(k)
    \/ Update

(***************************************************************************)
(* Game.drawMap: the tiles one frame asks the loader for.  The camera is   *)
(* given by the pixel position LatLonToPixels returns for it.              *)
(***************************************************************************)

tileSize == 256
logicalWidth == 1280
logicalHeight == 720
MinZoom == 4

\* bounds of the frames drawn: the zoom levels, and the camera positions per
\* width of the world map
MaxDrawZoom == 4
CamGrid == 7

DrawZooms == MinZoom..MaxDrawZoom

\* the side of the world map at zoom z, in pixels
WorldSize(z) == tileSize * 2^z

\* camera positions from one map width before the map to one after it
CenterPixels(z) == { (i * WorldSize(z)) \div CamGrid : i \in (-CamGrid)..(2 * CamGrid) }

\* a tile column handed on as it is
WrapX_NoWrap(tileX, maxIndex) == tileX

\* "for tileX < 0 { tileX += maxIndex + 1 }; for tileX > maxIndex { ... }"
RECURSIVE WrapX(_, _)
WrapX(tileX, maxIndex) ==
    IF tileX < 0 THEN WrapX(tileX + maxIndex + 1, maxIndex)
    ELSE IF tileX > maxIndex THEN WrapX(tileX - (maxIndex + 1), maxIndex)
    ELSE tileX

\* the GetTile calls of drawMap: col and row are the loop variables x and y
DrawTiles(z, centerX, centerY) ==
    LET minTileX == (centerX - logicalWidth \div 2) \div tileSize
        maxTileX == (centerX + logicalWidth \div 2) \div tileSize
        minTileY == (centerY - logicalHeight \div 2) \div tileSize
        maxTileY == (centerY + logicalHeight \div 2) \div tileSize
        maxIndex == 2^z - 1
    IN { [col |-> x, row |-> y, key |-> [Z |-> z, X |-> WrapX(x, maxIndex), Y |-> y]] :
           x \in minTileX..maxTileX,
           y \in { r \in minTileY..maxTileY : ~(r < 0 \/ r > maxIndex) } }

\* the keys the loader of the drawing specification has room for: those of
\* the map and a margin around it
DrawKeys ==
    { k \in [Z : DrawZooms, X : (-1)..(2^MaxDrawZoom), Y : (-1)..(2^MaxDrawZoom)] :
        k.X <= 2^k.Z /\ k.Y <= 2^k.Z }

\* Game.drawMap on a loader that has not been asked before, with its GetTile
\* calls
drawMap(z, centerX, centerY) ==
    /\ drawCall = <<>>
    /\ drawCall' = <<[zoom |-> z, centerX |-> centerX, centerY |-> centerY,
                      tiles |-> DrawTiles(z, centerX, centerY)]>>
    /\ LET tiles == drawCall'[1].tiles
           Asked(k) == \E t \in tiles : t.key = k
           last == CHOOSE t \in tiles : \A u \in tiles : u.col <= t.col /\ u.row <= t.row
       IN /\ IF variant = "raylib"
             THEN /\ pending' = pending \cup ({ t.key : t \in tiles } \ cache)
                  /\ fetching' = [k \in DOMAIN fetching |->
                                    IF Asked(k) /\ k \notin cache /\ k \notin pending
                                    THEN fetching[k] + 1 ELSE fetching[k]]
                  /\ UNCHANGED fetchStarted
             ELSE /\ fetchStarted' = [k \in DOMAIN fetchStarted |->
                                        IF Asked(k) /\ k \notin cache
                                        THEN fetchStarted[k] + 1 ELSE fetchStarted[k]]
                  /\ UNCHANGED <<pending, fetching>>
          /\ getTileRet' = IF tiles = {} THEN getTileRet
                           ELSE IF last.key \in cache THEN "image" ELSE "empty"
    /\ UNCHANGED <<cache, responseChan>>
    /\ UNCHANGED <<variant, scrapeCall, parsed, reader, guessCall, persistVars, clockVars, fcVars, snapVars, gameVars>>

DrawNext ==
    \E z \in DrawZooms : \E centerX, centerY \in CenterPixels(z) : drawMap(z, centerX, centerY)

TileNext ==
    \/ \E k \in TileKeys : GetTile(k)
    \/ \E k \in TileKeys : fetchTileRecheck(k)
    \/ \E k \in TileKeys, out \in FetchOutcomes : fetchTile(k, out)
    \/ Update

(***************************************************************************)
(* Clock                                                                   *)
(***************************************************************************)

cacheDuration == 10      \* seconds
pollSleep == 5           \* seconds, refreshFlights' time.Sleep

\* bound of the clock
MaxTime == 26

\* fc.lastFetch starts as Go's zero time.Time, which lies (far) more than
\* cacheDuration before the wall clock at program start: with the zero time
\* at 0 the program starts at StartTime.
StartTime == cacheDuration

Since(t) == now - t

Tick(d) ==
    /\ now + d <= MaxTime
    /\ now' = now + d
    /\ UNCHANGED <<variant, drawCall, scrapeCall, parsed, reader, guessCall, persistVars, tileVars, wake, fcVars, snapVars, gameVars>>

(***************************************************************************)
(* Snapshot cache: FlightClient                                            *)
(***************************************************************************)

\* A state vector of the remote API, cut to the positions the model reads:
\* s[0] icao24, s[1] callsign, and whether s[5]/s[6] (lon/lat) are non-nil.
RawCallsigns == {"FIN1  ", "        "}

TrimSpace(s) ==
    CASE s = "FIN1  " -> "FIN1"
      [] s = "        " -> ""
      [] OTHER -> s

RawAircraft ==
    { [icao24 |-> "a1", callsign |-> "FIN1  "],
      [icao24 |-> "b2", callsign |-> "        "] }

\* the shape of a record of `states`: "full" has every field with its type;
\* "short" has fewer than six fields; "nullfield" has null (or a value of
\* another type) for the id, the callsign, the country or the on-ground flag
RecordShapes == {"full", "short", "nullfield"}

RawVectors == { [icao24 |-> a.icao24, callsign |-> a.callsign, hasPos |-> p, shape |-> sh] :
                  a \in RawAircraft, p \in BOOLEAN, sh \in RecordShapes }

\* the `states` arrays a response can carry: each aircraft at most once, in
\* the order of their transponder ids
StatesArrays ==
    { <<>> } \cup { <<v>> : v \in RawVectors }
    \cup { p \in RawVectors \X RawVectors : p[1].icao24 = "a1" /\ p[2].icao24 = "b2" }

Flight(s) ==
    [ Icao24 |-> s.icao24,
      Callsign |-> IF TrimSpace(s.callsign) = "" THEN "N/A" ELSE TrimSpace(s.callsign) ]

\* the loop over result.States of FetchFlights
RECURSIVE ParseStates(_)
ParseStates(states) ==
    IF states = <<>> THEN <<>>
    ELSE IF ~Head(states).hasPos THEN ParseStates(Tail(states))
    ELSE <<Flight(Head(states))>> \o ParseStates(Tail(states))

\* bounds of the altitudes (m) and velocities (m/s) of the records
MaxAltM == 10
MaxVelMs == 12

\* s[7] and s[9]: <<>> for null, <<v>> for the number v.  A barometric
\* altitude can be below zero; 1000 m is the case the documentation names
Altitudes == {<<>>} \cup { <<a>> : a \in (-MaxAltM..MaxAltM) \cup {1000} }
Velocities == {<<>>} \cup { <<v>> : v \in 0..MaxVelMs }

\* the factors 3.28084 and 1.94384, times UnitScale
UnitScale == 100000
FeetPerMetre == 328084
KnotsPerMs == 194384

\* Go's int(x) of a float: the fraction is dropped, towards zero
Trunc(num, den) == IF num >= 0 THEN num \div den ELSE -((-num) \div den)

\* a conversion that rounds down
ToUnit_Floor(field, factor) ==
    LET x == IF field = <<>> THEN 0 ELSE field[1]
    IN (x * factor) \div UnitScale

\* `v := 0.0; if s[i] != nil { v = s[i].(float64) }; int(v * factor)`
ToUnit(field, factor) ==
    LET x == IF field = <<>> THEN 0 ELSE field[1]
    IN Trunc(x * factor, UnitScale)

\* the altitude and velocity part of the parse of one record
parseRecord(alt, vel) ==
    /\ parsed' = <<[altM |-> alt, velMs |-> vel,
                    Altitude |-> ToUnit(alt, FeetPerMetre),
                    Velocity |-> ToUnit(vel, KnotsPerMs)]>>
    /\ UNCHANGED <<variant, drawCall, scrapeCall, reader, guessCall, persistVars, tileVars, clockVars, fcVars, snapVars, gameVars>>

UnitsNext == \E alt \in Altitudes, vel \in Velocities : parseRecord(alt, vel)

\* what the token endpoint can answer
AuthOutcomes == {"ok", "fail"}

\* what the state-vector endpoint can answer
\*   "transport" httpClient.Do fails, "429", "status" another non-200 status,
\*   "readerr" io.ReadAll fails, "badjson" json.Unmarshal fails
FailureKinds == {"transport", "429", "status", "readerr", "badjson"}

Responses ==
    { [kind |-> k, states |-> <<>>] : k \in FailureKinds }
    \cup { [kind |-> "ok", states |-> st] : st \in StatesArrays }

\* a client that asks for a token on every refresh
AuthRequested_Always ==
    clientID # "" /\ clientSec # ""

\* authenticate() issues a request only with both credentials set
AuthRequested ==
    clientID # "" /\ token = "" /\ clientSec # ""

TokenAfterAuth(auth) ==
    IF AuthRequested /\ auth = "ok" THEN "tok" ELSE token

\* a freshness window of the poll interval instead of cacheDuration
CacheFresh_ShortWindow == Since(lastFetch) < pollSleep /\ Len(fc_cache) > 0

\* "Return cached if fresh"
CacheFresh == Since(lastFetch) < cacheDuration /\ Len(fc_cache) > 0

\* a failure that also drops the cached snapshot
FetchFailed_DropsCache(kind) ==
    /\ fetchRet' = <<>>
    /\ fetchErr' = kind
    /\ fc_cache' = <<>>
    /\ UNCHANGED lastFetch

\* every failure path: `return nil, err`
FetchFailed(kind) ==
    /\ fetchRet' = <<>>
    /\ fetchErr' = kind
    /\ UNCHANGED <<fc_cache, lastFetch>>

\* the loop over result.States panics: s[5] of a short record is out of
\* range; s[1].(string), s[0].(string), s[8].(bool) and s[2].(string) are
\* unchecked assertions, reached for a record that has a position
ParsePanics(states) ==
    \E i \in 1..Len(states) :
        \/ states[i].shape = "short"
        \/ states[i].shape = "nullfield" /\ states[i].hasPos

\* the panic is not recovered: the goroutine of refreshFlights takes the
\* process down, nothing is returned and nothing is stored
FetchPanics ==
    /\ fetchRet' = <<>>
    /\ fetchErr' = "panic"
    /\ UNCHANGED <<fc_cache, lastFetch>>

\* a fetch that gives up when the token exchange fails
FetchFlights_AbortsOnAuthFailure(auth, resp) ==
    IF CacheFresh
    THEN /\ fetchRet' = fc_cache
         /\ fetchErr' = "none"
         /\ netCalls' = <<>>
         /\ UNCHANGED <<fc_cache, lastFetch, token, clientID, clientSec>>
    ELSE IF AuthRequested /\ auth # "ok"
    THEN /\ netCalls' = <<"token">>
         /\ FetchFailed("transport")
         /\ UNCHANGED <<token, clientID, clientSec>>
    ELSE /\ token' = TokenAfterAuth(auth)
         /\ netCalls' = (IF AuthRequested THEN <<"token">> ELSE <<>>)
                        \o <<IF TokenAfterAuth(auth) # "" THEN "states+bearer" ELSE "states">>
         /\ IF resp.kind # "ok"
            THEN FetchFailed(resp.kind)
            ELSE IF ParsePanics(resp.states)
            THEN FetchPanics
            ELSE /\ fc_cache' = ParseStates(resp.states)
                 /\ lastFetch' = now
                 /\ fetchRet' = ParseStates(resp.states)
                 /\ fetchErr' = "none"
         /\ UNCHANGED <<clientID, clientSec>>

FetchFlights(auth, resp) ==
    IF CacheFresh
    THEN /\ fetchRet' = fc_cache
         /\ fetchErr' = "none"
         /\ netCalls' = <<>>
         /\ UNCHANGED <<fc_cache, lastFetch, token, clientID, clientSec>>
    ELSE /\ token' = TokenAfterAuth(auth)
         /\ netCalls' = (IF AuthRequested THEN <<"token">> ELSE <<>>)
                        \o <<IF TokenAfterAuth(auth) # "" THEN "states+bearer" ELSE "states">>
         /\ IF resp.kind # "ok"
            THEN FetchFailed(resp.kind)
            ELSE IF ParsePanics(resp.states)
            THEN FetchPanics
            ELSE /\ fc_cache' = ParseStates(resp.states)
                 /\ lastFetch' = now
                 /\ fetchRet' = ParseStates(resp.states)
                 /\ fetchErr' = "none"
         /\ UNCHANGED <<clientID, clientSec>>

NewFlightClient ==
    /\ fc_cache = <<>>
    /\ lastFetch = 0
    /\ token = ""
    /\ fetchRet = <<>>
    /\ fetchErr = "none"
    /\ netCalls = <<>>

\* loadCredentials: both from the environment, or whatever the file holds
Credentials == { <<"", "">>, <<"id", "secret">>, <<"id", "">> }

(***************************************************************************)
(* Game: the background refresher                                          *)
(***************************************************************************)

\* "for _, f := range flights { if f.Icao24 == p.Icao24 { p = &f; break } }"
RECURSIVE Rebind(_, _)
Rebind(p, fs) ==
    IF p = <<>> \/ fs = <<>> THEN p
    ELSE IF Head(fs).Icao24 = p[1].Icao24 THEN <<Head(fs)>>
    ELSE Rebind(p, Tail(fs))

\* a refresher that shows whatever FetchFlights returned, error or not
refreshFlights_AssignsOnError(auth, resp) ==
    /\ now >= wake
    /\ FetchFlights(auth, resp)
    /\ flights' = fetchRet'
    /\ selectedPlane' = Rebind(selectedPlane, fetchRet')
    /\ targetPlane' = Rebind(targetPlane, fetchRet')
    /\ wake' = now + pollSleep
    /\ UNCHANGED <<variant, drawCall, scrapeCall, parsed, reader, guessCall, persistVars, tileVars, now, gameVars>>

\* one iteration of the loop of refreshFlights
refreshFlights(auth, resp) ==
    /\ fetchErr # "panic"
    /\ now >= wake
    /\ FetchFlights(auth, resp)
    /\ IF fetchErr' # "none"
       THEN UNCHANGED snapVars
       ELSE /\ flights' = fetchRet'
            /\ selectedPlane' = Rebind(selectedPlane, fetchRet')
            /\ targetPlane' = Rebind(targetPlane, fetchRet')
    /\ wake' = now + pollSleep
    /\ UNCHANGED <<variant, drawCall, scrapeCall, parsed, reader, guessCall, persistVars, tileVars, now, gameVars>>

FetchNext ==
    \/ Tick(1)
    \/ \E auth \in AuthOutcomes, resp \in Responses : refreshFlights(auth, resp)

(***************************************************************************)
(* Persistence of the seen airports: DataManager                           *)
(***************************************************************************)

Elems(s) == { s[i] : i \in 1..Len(s) }

\* the labels the model can store, in the byte order sort.Strings uses
LabelOrder == <<"Berlin", "Helsinki", "London", "Oslo", "Paris", "Vantaa">>

Rank(l) == CHOOSE i \in 1..Len(LabelOrder) : LabelOrder[i] = l

RECURSIVE InsertSorted(_, _)
InsertSorted(s, c) ==
    IF s = <<>> THEN <<c>>
    ELSE IF Rank(c) < Rank(Head(s)) THEN <<c>> \o s
    ELSE <<Head(s)>> \o InsertSorted(Tail(s), c)

RECURSIVE SortStrings(_)
SortStrings(s) ==
    IF s = <<>> THEN <<>> ELSE InsertSorted(SortStrings(Tail(s)), Head(s))

\* a SaveAirport that does not look whether the label is stored
SaveAirport_NoExistsCheck(city, file) ==
    IF city = "" \/ city = "Unknown" \/ city = "N/A" THEN file
    ELSE SortStrings(Append(file, city))

\* DataManager.SaveAirport: the list airports.json holds after the call
SaveAirport(city, file) ==
    IF city = "" \/ city = "Unknown" \/ city = "N/A" THEN file
    ELSE IF city \in Elems(file) THEN file
    ELSE SortStrings(Append(file, city))

DefaultAirports ==
    <<"London", "Paris", "Berlin", "Helsinki", "Tokyo", "New York", "Dubai", "Rome">>

\* Game.refreshAirports over DataManager.LoadAirports
refreshAirports(file) == IF Len(file) > 0 THEN file ELSE DefaultAirports

(***************************************************************************)
(* Route resolver, as the game sees it                                     *)
(***************************************************************************)

DestLabels == {"", "Helsinki", "Paris"}
OriginLabels == {"Unknown", "Oslo"}

ResolvedDetails(dest, origin) ==
    [Destination |-> dest, RealDestination |-> dest, Model |-> "A320", Origin |-> origin]

DetailsSet == { ResolvedDetails(d, o) : d \in DestLabels, o \in OriginLabels }

\* Scraper.FetchFlightDetails returns (nil, err), here <<>>, or (details, nil)
ScrapeResults == { <<>> } \cup { <<d>> : d \in DetailsSet }

\* a string field of the flight log entry: <<>> when the key is missing or
\* its value is not a string, <<v>> when it holds the string v
Field(vals) == {<<>>} \cup { <<v>> : v \in vals }

\* fLog[0]: the destination, aircraft and origin objects of the latest entry
LatestEntries ==
    [ destFriendly : Field({"Helsinki"}), destIata : Field({"HEL"}),
      friendlyType : Field({"Airbus A320"}), type : Field({"A320"}),
      originFriendly : Field({"Oslo"}), originIata : Field({"OSL"}) ]

\* what the page of a callsign can be
\*   http       "transport" client.Do fails, "status" a status other than 200
\*   marker     the regular expression finds `trackpollBootstrap = {...};`
\*   validJson  the object it captured unmarshals
\*   hasFlights data["flights"] is an object
\*   entries    the values of that object with a non-empty activity log
PageOf(http, marker, validJson, hasFlights, entries) ==
    [http |-> http, marker |-> marker, validJson |-> validJson,
     hasFlights |-> hasFlights, entries |-> entries]

Pages ==
    { PageOf(h, FALSE, FALSE, FALSE, {}) : h \in {"transport", "status"} }
    \cup { PageOf("200", FALSE, FALSE, FALSE, {}),
           PageOf("200", TRUE, FALSE, FALSE, {}),
           PageOf("200", TRUE, TRUE, FALSE, {}),
           PageOf("200", TRUE, TRUE, TRUE, {}) }
    \cup { PageOf("200", TRUE, TRUE, TRUE, {e}) : e \in LatestEntries }

\* `if v, ok := m["friendly..."].(string); ok {..} else if v, ok := m[code].(string); ok {..}`
PreferFriendly(friendly, code) ==
    IF friendly # <<>> THEN friendly[1]
    ELSE IF code # <<>> THEN code[1]
    ELSE ""

\* `if v, ok := originData["friendlyLocation"].(string); ok { originName = v }`
FriendlyOnly(friendly) == IF friendly # <<>> THEN friendly[1] ELSE ""

\* the details built from the entry `latest`
DetailsOf(latest) ==
    [Destination |-> PreferFriendly(latest.destFriendly, latest.destIata),
     RealDestination |-> PreferFriendly(latest.destFriendly, latest.destIata),
     Model |-> PreferFriendly(latest.friendlyType, latest.type),
     Origin |-> FriendlyOnly(latest.originFriendly)]

ScrapeReturn(page, details, err) == <<[page |-> page, details |-> details, err |-> err]>>

\* a resolver with one message for every page it cannot read
FetchFlightDetails_OneMessage(page) ==
    /\ scrapeCall' =
         IF page.http # "200" THEN ScrapeReturn(page, <<>>, page.http)
         ELSE IF ~page.marker \/ ~page.validJson \/ ~page.hasFlights
         THEN ScrapeReturn(page, <<>>, "no data found in page")
         ELSE IF page.entries = {}
         THEN ScrapeReturn(page, <<>>, "details not found in flight data")
         ELSE LET e == CHOOSE x \in page.entries : TRUE
              IN ScrapeReturn(page, <<DetailsOf(e)>>, "nil")
    /\ UNCHANGED <<variant, drawCall, parsed, reader, guessCall, persistVars, tileVars, clockVars, fcVars, snapVars, gameVars>>

\* Scraper.FetchFlightDetails on the page the site answers with
FetchFlightDetails(page) ==
    /\ \/ /\ page.http # "200"
          /\ scrapeCall' = ScrapeReturn(page, <<>>, page.http)
       \/ /\ page.http = "200" /\ ~page.marker
          /\ scrapeCall' = ScrapeReturn(page, <<>>, "no data found in page")
       \/ /\ page.http = "200" /\ page.marker /\ ~page.validJson
          /\ scrapeCall' = ScrapeReturn(page, <<>>, "failed to parse json")
       \/ /\ page.http = "200" /\ page.marker /\ page.validJson /\ ~page.hasFlights
          /\ scrapeCall' = ScrapeReturn(page, <<>>, "no flights data structure")
       \/ /\ page.http = "200" /\ page.marker /\ page.validJson /\ page.hasFlights
          /\ IF page.entries = {}
             THEN scrapeCall' = ScrapeReturn(page, <<>>, "details not found in flight data")
             ELSE \E e \in page.entries :     \* range over a map: any entry comes first
                    scrapeCall' = ScrapeReturn(page, <<DetailsOf(e)>>, "nil")
    /\ UNCHANGED <<variant, drawCall, parsed, reader, guessCall, persistVars, tileVars, clockVars, fcVars, snapVars, gameVars>>

ScrapeNext == \E page \in Pages : FetchFlightDetails(page)

\* strings.Contains on the labels of the model
Contains(s, sub) ==
    CASE sub = "Helsinki" -> s \in {"Helsinki", "Helsinki Vantaa"}
      [] sub = "Vantaa" -> s \in {"Vantaa", "Helsinki Vantaa"}
      [] OTHER -> s = sub

(***************************************************************************)
(* Round orchestrator                                                      *)
(***************************************************************************)

MaxRounds == 5
MaxOptions == 4
resultDelay == 2        \* seconds
bonusWindow == 20       \* seconds

\* bounds of the game model
MaxResolvers == 2
MaxSaveTasks == 1
MaxSeed == 2
MaxGames == 2

Seeds == 0..MaxSeed

\* rand.Shuffle: the permutations the model draws from (rotations, and their
\* reversals for odd seeds)
Rotate(s, r) == [i \in 1..Len(s) |-> s[((i - 1 + r) % Len(s)) + 1]]
Reverse(s) == [i \in 1..Len(s) |-> s[Len(s) + 1 - i]]
Shuffle(s, seed) ==
    IF s = <<>> THEN s
    ELSE IF seed % 2 = 0 THEN Rotate(s, seed \div 2)
    ELSE Reverse(Rotate(s, seed \div 2))

\* a fallback list that cannot pad an answer of its own to four options
Fallbacks_ThreeCities ==
    <<"London", "Paris", "Berlin">>

\* the fallback cities of generateOptions
Fallbacks ==
    IF variant = "raylib"
    THEN <<"London", "Paris", "Berlin", "Helsinki">>
    ELSE <<"London", "Paris", "Berlin", "Helsinki", "Tokyo", "New York">>

\* generateOptions, first loop: over the shuffled airports
RECURSIVE TakeDistractors(_, _, _)
TakeDistractors(opts, dist, correct) ==
    IF dist = <<>> \/ Len(opts) >= MaxOptions THEN opts
    ELSE TakeDistractors(
           IF Head(dist) # correct /\ Head(dist) # "Unknown"
           THEN Append(opts, Head(dist)) ELSE opts,
           Tail(dist), correct)

\* a fill that does not look whether the label is already an option
RECURSIVE FillFallbacks_NoExistsCheck(_, _)
FillFallbacks_NoExistsCheck(opts, fb) ==
    IF fb = <<>> \/ Len(opts) >= MaxOptions THEN opts
    ELSE FillFallbacks_NoExistsCheck(Append(opts, Head(fb)), Tail(fb))

\* generateOptions, second loop: "Fill if needed"
RECURSIVE FillFallbacks(_, _)
FillFallbacks(opts, fb) ==
    IF fb = <<>> \/ Len(opts) >= MaxOptions THEN opts
    ELSE FillFallbacks(
           IF Head(fb) \in Elems(opts) THEN opts ELSE Append(opts, Head(fb)),
           Tail(fb))

\* the options generateOptions builds for `correct` from the stored list
generateOptions(correct, file, s1, s2) ==
    Shuffle(FillFallbacks(TakeDistractors(<<correct>>,
                                          Shuffle(refreshAirports(file), s1),
                                          correct),
                          Fallbacks),
            s2)

\* the clock of the model counts whole seconds; time.Since(...).Seconds() is
\* taken in steps of 1/SubSecond s (binary fractions, exact in float64)
SubSecond == 4
Fractions == 0..(SubSecond - 1)

\* a bonus without the math.Max(0, ...)
Bonus_Unclamped(q) ==
    ((bonusWindow * SubSecond - q) * 100) \div (bonusWindow * SubSecond)

\* int(math.Max(0, (20.0-elapsed)/20.0*100.0)), elapsed = q/SubSecond seconds:
\* the conversion to int drops the fraction
Bonus(q) ==
    LET x == (bonusWindow * SubSecond - q) * 100
    IN IF x <= 0 THEN 0 ELSE x \div (bonusWindow * SubSecond)

Total(f) == LET RECURSIVE Sum(_)
                Sum(S) == IF S = {} THEN 0
                          ELSE LET x == CHOOSE y \in S : TRUE IN f[x] + Sum(S \ {x})
            IN Sum(DOMAIN f)

\* rand.Intn(len(g.flights)), as a position of the slice
TargetChoices == IF Len(flights) = 0 THEN {0} ELSE 1..Len(flights)

\* Game.pickNewTarget.  rd, rs, tm, rt are g.resolvedDetails, g.resolving, the
\* pending timers and the running round resolvers as the caller leaves them.
\* (The camera move to the target is not modelled.)
pickNewTarget(idx, rd, rs, tm, rt) ==
    /\ state' = "RoundSetup"
    /\ showResult' = FALSE
    /\ wrongGuess' = ""
    /\ IF Len(flights) = 0
       THEN /\ timers' = tm + 1           \* time.AfterFunc(1s, g.pickNewTarget)
            /\ roundTasks' = rt
            /\ resolvedDetails' = rd
            /\ resolving' = rs
            /\ UNCHANGED <<targetPlane, selectedPlane>>
       ELSE /\ idx \in 1..Len(flights)
            /\ targetPlane' = <<flights[idx]>>
            /\ selectedPlane' = <<flights[idx]>>
            /\ resolvedDetails' = <<>>
            /\ resolving' = TRUE
            /\ roundTasks' = [rt EXCEPT ![flights[idx].Icao24] = @ + 1]   \* go func()
            /\ timers' = tm

\* a game of one round less
nextRound_OneShort(idx, r) ==
    /\ round' = r + 1
    /\ IF r + 1 >= MaxRounds
       THEN /\ state' = "GameOver"
            /\ UNCHANGED <<showResult, wrongGuess, targetPlane, selectedPlane,
                           detailVars, roundTasks, timers>>
       ELSE pickNewTarget(idx, resolvedDetails, resolving, timers, roundTasks)

\* Game.nextRound, r being g.round when it is called
nextRound(idx, r) ==
    /\ round' = r + 1
    /\ IF r + 1 > MaxRounds
       THEN /\ state' = "GameOver"
            /\ UNCHANGED <<showResult, wrongGuess, targetPlane, selectedPlane,
                           detailVars, roundTasks, timers>>
       ELSE pickNewTarget(idx, resolvedDetails, resolving, timers, roundTasks)

\* a PLAY GAME that carries the score of the last game over
startGame_KeepsScore(idx) ==
    /\ state = "Map"
    /\ Len(flights) # 0
    /\ currentUser.GamesPlayed < MaxGames
    /\ score' = score
    /\ nextRound(idx, 0)
    /\ UNCHANGED <<variant, drawCall, scrapeCall, parsed, reader, guessCall, persistVars, tileVars, clockVars, fcVars, flights, storeVars,
                   roundStartTime, questionText, options, correctOption,
                   resultCorrect, resultStartTime, selectTasks, saveTasks>>

\* a PLAY GAME button that is also there while a round is being set up
startGame_AnyState(idx) ==
    /\ state \in {"Map", "RoundSetup"}
    /\ Len(flights) # 0
    /\ currentUser.GamesPlayed < MaxGames
    /\ score' = 0
    /\ nextRound(idx, 0)
    /\ UNCHANGED <<variant, drawCall, scrapeCall, parsed, reader, guessCall, persistVars, tileVars, clockVars, fcVars, flights, storeVars,
                   roundStartTime, questionText, options, correctOption,
                   resultCorrect, resultStartTime, selectTasks, saveTasks>>

\* Game.startGame, the action of the PLAY GAME button (shown in StateMap)
startGame(idx) ==
    /\ state = "Map"
    /\ Len(flights) # 0
    /\ currentUser.GamesPlayed < MaxGames
    /\ score' = 0
    /\ nextRound(idx, 0)
    /\ UNCHANGED <<variant, drawCall, scrapeCall, parsed, reader, guessCall, persistVars, tileVars, clockVars, fcVars, flights, storeVars,
                   roundStartTime, questionText, options, correctOption,
                   resultCorrect, resultStartTime, selectTasks, saveTasks>>

\* a result transition that counts the round twice
UpdateResult_SkipsRound(idx) ==
    /\ state = "GamePlaying"
    /\ showResult
    /\ Since(resultStartTime) > resultDelay
    /\ nextRound(idx, round + 1)
    /\ UNCHANGED <<variant, drawCall, scrapeCall, parsed, reader, guessCall, persistVars, tileVars, clockVars, fcVars, flights, storeVars, score,
                   roundStartTime, questionText, options, correctOption,
                   resultCorrect, resultStartTime, selectTasks, saveTasks>>

\* Game.Update, "Game Logic Transitions"
UpdateResult(idx) ==
    /\ state = "GamePlaying"
    /\ showResult
    /\ Since(resultStartTime) > resultDelay
    /\ nextRound(idx, round)
    /\ UNCHANGED <<variant, drawCall, scrapeCall, parsed, reader, guessCall, persistVars, tileVars, clockVars, fcVars, flights, storeVars, score,
                   roundStartTime, questionText, options, correctOption,
                   resultCorrect, resultStartTime, selectTasks, saveTasks>>

\* a guess that does not look at g.showResult
guess_Always(city, frac) ==
    /\ state = "GamePlaying"
    /\ targetPlane # <<>>
    /\ city \in Elems(options)
    /\ LET elapsed == Since(roundStartTime) * SubSecond + frac
       IN /\ guessCall' = <<[city |-> city, elapsed |-> elapsed, accepted |-> ~showResult]>>
          /\ resultCorrect' = (city = correctOption)
          /\ IF city = correctOption
             THEN /\ score' = score + 100 + Bonus(elapsed)
                  /\ UNCHANGED wrongGuess
             ELSE /\ wrongGuess' = city
                  /\ UNCHANGED score
          /\ showResult' = TRUE
          /\ resultStartTime' = now
    /\ UNCHANGED <<variant, drawCall, scrapeCall, parsed, reader, persistVars, tileVars, clockVars, fcVars, snapVars,
                   detailVars, storeVars, taskVars, state, round, roundStartTime,
                   questionText, options, correctOption>>

\* the most one guess adds: 100 and the whole bonus
MaxRoundScore == 100 + Bonus(0)

\* min(a, b)
Min(a, b) == IF a < b THEN a ELSE b

\* Game.guess, the action of an option button (shown while playing with a
\* target), frac/SubSecond s after the clock's last whole second
guess(city, frac) ==
    /\ state = "GamePlaying"
    /\ targetPlane # <<>>
    /\ city \in Elems(options)
    /\ IF showResult
       THEN /\ guessCall' = <<[city |-> city, elapsed |-> 0, accepted |-> FALSE]>>
            /\ UNCHANGED <<score, wrongGuess, showResult, resultCorrect, resultStartTime>>
       ELSE LET elapsed == Since(roundStartTime) * SubSecond + frac
            IN /\ guessCall' = <<[city |-> city, elapsed |-> elapsed, accepted |-> TRUE]>>
               /\ resultCorrect' = (city = correctOption)
               /\ IF city = correctOption
                  THEN /\ score' = score + 100 + Bonus(elapsed)
                       /\ UNCHANGED wrongGuess
                  ELSE /\ wrongGuess' = city
                       /\ UNCHANGED score
               /\ showResult' = TRUE
               /\ resultStartTime' = now
    /\ UNCHANGED <<variant, drawCall, scrapeCall, parsed, reader, persistVars, tileVars, clockVars, fcVars, snapVars,
                   detailVars, storeVars, taskVars, state, round, roundStartTime,
                   questionText, options, correctOption>>

(***************************************************************************)
(* Persistence of users and scores: DataManager.  (Read and write errors   *)
(* of the files, and the Date of a score entry, are not modelled.)         *)
(***************************************************************************)

Names == {"ann", "bob"}

UserStats(name) == [Name |-> name, GamesPlayed |-> 0, TotalScore |-> 0, BestScore |-> 0]

ScoreEntry(name, sc) == [Name |-> name, Score |-> sc]

TopScores == 10

\* DataManager.SaveUser: users.json after the call
SaveUser(name, sc, file) ==
    LET user == IF file[name] = <<>> THEN UserStats(name) ELSE file[name][1]
    IN [file EXCEPT ![name] =
          <<[user EXCEPT !.GamesPlayed = @ + 1,
                         !.TotalScore = @ + sc,
                         !.BestScore = IF sc > @ THEN sc ELSE @]>>]

\* sort.Slice with `scores[i].Score > scores[j].Score`: for the at most 12
\* entries it gets here, Go sorts by insertion, which keeps equal scores in
\* their order
RECURSIVE InsertByScore(_, _)
InsertByScore(s, e) ==
    IF s = <<>> THEN <<e>>
    ELSE IF e.Score > Head(s).Score THEN <<e>> \o s
    ELSE <<Head(s)>> \o InsertByScore(Tail(s), e)

RECURSIVE SortByScore(_)
SortByScore(s) ==
    IF s = <<>> THEN <<>>
    ELSE InsertByScore(SortByScore(SubSeq(s, 1, Len(s) - 1)), s[Len(s)])

\* an AddScore that keeps the last ten of the sorted list
AddScore_KeepsLast(entry, scores) ==
    LET sorted == SortByScore(Append(scores, entry))
    IN IF Len(sorted) > TopScores
       THEN SubSeq(sorted, Len(sorted) - TopScores + 1, Len(sorted))
       ELSE sorted

\* DataManager.AddScore: scores.json after the call
AddScore(entry, scores) ==
    LET sorted == SortByScore(Append(scores, entry))
    IN IF Len(sorted) > TopScores THEN SubSeq(sorted, 1, TopScores) ELSE sorted

\* an endGame that saves only a game that scored
endGame_OnlyWithPoints ==
    /\ \/ state = "GamePlaying" /\ targetPlane # <<>>
       \/ state = "GameOver"
    /\ IF score > 0
       THEN LET file == SaveUser(currentUser.Name, score, usersFile)
            IN /\ usersFile' = file
               /\ currentUser' = file[currentUser.Name][1]
               /\ scoresFile' = AddScore(ScoreEntry(currentUser.Name, score), scoresFile)
       ELSE UNCHANGED persistVars
    /\ state' = "Map"
    /\ selectedPlane' = <<>>
    /\ UNCHANGED <<variant, drawCall, scrapeCall, parsed, reader, guessCall, tileVars, clockVars, fcVars, flights,
                   targetPlane, detailVars, storeVars, taskVars, score, round,
                   roundStartTime, questionText, options, correctOption, wrongGuess,
                   showResult, resultCorrect, resultStartTime>>

\* Game.endGame, the action of QUIT (while playing) and of CLOSE (game over)
endGame ==
    /\ \/ state = "GamePlaying" /\ targetPlane # <<>>
       \/ state = "GameOver"
    /\ IF round > 0
       THEN LET file == SaveUser(currentUser.Name, score, usersFile)
            IN /\ usersFile' = file
               /\ currentUser' = file[currentUser.Name][1]
               /\ scoresFile' = AddScore(ScoreEntry(currentUser.Name, score), scoresFile)
       ELSE UNCHANGED persistVars
    /\ state' = "Map"
    /\ selectedPlane' = <<>>
    /\ UNCHANGED <<variant, drawCall, scrapeCall, parsed, reader, guessCall, tileVars, clockVars, fcVars, flights,
                   targetPlane, detailVars, storeVars, taskVars, score, round,
                   roundStartTime, questionText, options, correctOption, wrongGuess,
                   showResult, resultCorrect, resultStartTime>>

\* Game.login / the LOGOUT button
login(name) ==
    /\ state = "Login"
    /\ currentUser' = IF usersFile[name] # <<>> THEN usersFile[name][1] ELSE UserStats(name)
    /\ state' = "Map"
    /\ UNCHANGED <<variant, drawCall, scrapeCall, parsed, reader, guessCall, usersFile, scoresFile, tileVars, clockVars, fcVars, snapVars, detailVars, storeVars,
                   taskVars, score, round, roundStartTime, questionText, options,
                   correctOption, wrongGuess, showResult, resultCorrect, resultStartTime>>

logout ==
    /\ state = "Map"
    /\ state' = "Login"
    /\ UNCHANGED <<variant, drawCall, scrapeCall, parsed, reader, guessCall, persistVars, tileVars, clockVars, fcVars, snapVars, detailVars, storeVars,
                   taskVars, score, round, roundStartTime, questionText, options,
                   correctOption, wrongGuess, showResult, resultCorrect, resultStartTime>>

\* Game.selectPlane, up to the `go func(callsign)`
selectPlane(f) ==
    /\ selectedPlane' = <<f>>
    /\ resolvedDetails' = <<>>
    /\ resolving' = TRUE
    /\ selectTasks' = [selectTasks EXCEPT ![f.Callsign] = @ + 1]

\* Game.checkPlaneClick finding the plane at position i of g.flights
checkPlaneClick(i) ==
    /\ state \in {"Map", "GamePlaying"}
    /\ i \in 1..Len(flights)
    /\ Total(selectTasks) < MaxResolvers
    /\ selectPlane(flights[i])
    /\ UNCHANGED <<variant, drawCall, scrapeCall, parsed, reader, guessCall, persistVars, tileVars, clockVars, fcVars, flights, targetPlane, roundVars,
                   storeVars, roundTasks, saveTasks, timers>>

\* the "X" button of the flight info panel
closeButton ==
    /\ selectedPlane # <<>>
    /\ state \in {"Map", "GamePlaying", "RoundSetup", "GameOver"}
    /\ selectedPlane' = <<>>
    /\ UNCHANGED <<variant, drawCall, scrapeCall, parsed, reader, guessCall, persistVars, tileVars, clockVars, fcVars, flights, targetPlane, gameVars>>

\* the goroutine of selectPlane, from the return of FetchFlightDetails on
selectPlaneDone(callsign, res) ==
    /\ selectTasks[callsign] > 0
    /\ selectTasks' = [selectTasks EXCEPT ![callsign] = @ - 1]
    /\ IF res = <<>>
       THEN /\ resolving' = FALSE
            /\ UNCHANGED <<resolvedDetails, saveTasks>>
       ELSE /\ LET t == <<res[1].RealDestination, res[1].Origin>>
               IN /\ t \in saveTasks \/ Cardinality(saveTasks) < MaxSaveTasks
                  /\ saveTasks' = saveTasks \cup {t}       \* go func() { SaveAirport... }
            /\ IF selectedPlane # <<>> /\ selectedPlane[1].Callsign = callsign
               THEN /\ resolvedDetails' = res
                    /\ resolving' = FALSE
               ELSE UNCHANGED <<resolvedDetails, resolving>>
    /\ UNCHANGED <<variant, drawCall, scrapeCall, parsed, reader, guessCall, persistVars, tileVars, clockVars, fcVars, snapVars, roundVars, storeVars,
                   roundTasks, timers>>

\* one SaveAirport call of the saving goroutine
saveAirportStep(t) ==
    /\ t \in saveTasks
    /\ airportsFile' = SaveAirport(Head(t), airportsFile)
    /\ saveTasks' = (saveTasks \ {t}) \cup (IF Len(t) > 1 THEN {Tail(t)} ELSE {})
    /\ UNCHANGED <<variant, drawCall, scrapeCall, parsed, reader, guessCall, persistVars, tileVars, clockVars, fcVars, snapVars, detailVars, roundVars,
                   airports, selectTasks, roundTasks, timers>>

\* "Validate Data"
InvalidDetails(details) ==
    IF variant = "raylib"
    THEN details.RealDestination = "" \/ details.RealDestination = "Unknown"
    ELSE \/ details.RealDestination = "" \/ details.RealDestination = "Unknown"
         \/ details.Origin = "" \/ details.Origin = "Unknown"

isInbound(dest) ==
    IF variant = "raylib" THEN Contains(dest, "Helsinki")
    ELSE Contains(dest, "Helsinki") \/ Contains(dest, "Vantaa")

\* Game.setupRoundWithData, rt being the running round resolvers
setupRoundWithData(details, idx, s1, s2, rt) ==
    IF InvalidDetails(details)
    THEN /\ pickNewTarget(idx, <<details>>, FALSE, timers, rt)
         /\ UNCHANGED <<storeVars, questionText, correctOption, options, roundStartTime>>
    ELSE LET file == SaveAirport(details.Origin,
                                 SaveAirport(details.RealDestination, airportsFile))
             correct == IF isInbound(details.RealDestination)
                        THEN details.Origin ELSE details.RealDestination
         IN /\ resolvedDetails' = <<details>>
            /\ resolving' = FALSE
            /\ airportsFile' = file
            /\ questionText' = [ask |-> IF isInbound(details.RealDestination)
                                        THEN "from" ELSE "going",
                                callsign |-> targetPlane[1].Callsign]
            /\ correctOption' = correct
            /\ airports' = refreshAirports(file)
            /\ options' = generateOptions(correct, file, s1, s2)
            /\ roundStartTime' = now
            /\ state' = "GamePlaying"
            /\ roundTasks' = rt
            /\ UNCHANGED <<showResult, wrongGuess, targetPlane, selectedPlane, timers>>

\* a goroutine that gives the round up when the resolver fails
pickNewTargetDone_GivesUp(id, res, idx, s1, s2) ==
    /\ roundTasks[id] > 0
    /\ LET rt == [roundTasks EXCEPT ![id] = @ - 1]
       IN IF res # <<>>
          THEN setupRoundWithData(res[1], idx, s1, s2, rt)
          ELSE /\ roundTasks' = rt
               /\ state' = "Map"
               /\ UNCHANGED <<showResult, wrongGuess, targetPlane, selectedPlane,
                              detailVars, timers, storeVars, questionText,
                              correctOption, options, roundStartTime>>
    /\ UNCHANGED <<variant, drawCall, scrapeCall, parsed, reader, guessCall, persistVars, tileVars, clockVars, fcVars, flights, score, round,
                   resultCorrect, resultStartTime, selectTasks, saveTasks>>

\* the goroutine of pickNewTarget, from the return of FetchFlightDetails on
pickNewTargetDone(id, res, idx, s1, s2) ==
    /\ roundTasks[id] > 0
    /\ LET rt == [roundTasks EXCEPT ![id] = @ - 1]
       IN IF res # <<>>
          THEN setupRoundWithData(res[1], idx, s1, s2, rt)
          ELSE /\ pickNewTarget(idx, resolvedDetails, resolving, timers, rt)
               /\ UNCHANGED <<storeVars, questionText, correctOption, options,
                              roundStartTime>>
    /\ UNCHANGED <<variant, drawCall, scrapeCall, parsed, reader, guessCall, persistVars, tileVars, clockVars, fcVars, flights, score, round,
                   resultCorrect, resultStartTime, selectTasks, saveTasks>>

\* a timer of pickNewTarget fires
retryTimer(idx) ==
    /\ timers > 0
    /\ pickNewTarget(idx, resolvedDetails, resolving, timers - 1, roundTasks)
    /\ UNCHANGED <<variant, drawCall, scrapeCall, parsed, reader, guessCall, persistVars, tileVars, clockVars, fcVars, flights, storeVars, score, round,
                   roundStartTime, questionText, options, correctOption,
                   resultCorrect, resultStartTime, selectTasks, saveTasks>>

(***************************************************************************)
(* The reads of g.flights, one at a time.  Game holds no lock: the         *)
(* refresher's `g.flights = flights` can fall between any two reads of a   *)
(* call that runs on another goroutine.                                    *)
(***************************************************************************)

\* pc: where the call stands; snap: the list its first read saw; i: the
\* position it computed; found: checkPlaneClick's closest plane so far;
\* mixed: a later read saw another list than the first
Idle == [pc |-> "idle", snap |-> <<>>, i |-> 0, found |-> <<>>, mixed |-> FALSE]

\* startGame on the UI goroutine, up to the entry of pickNewTarget
raceStartGame ==
    /\ reader.pc = "idle"
    /\ state = "Map"
    /\ Len(flights) # 0
    /\ currentUser.GamesPlayed < MaxGames
    /\ score' = 0
    /\ round' = 1
    /\ state' = "RoundSetup"
    /\ showResult' = FALSE
    /\ wrongGuess' = ""
    /\ reader' = [Idle EXCEPT !.pc = "entered"]
    /\ UNCHANGED <<variant, drawCall, scrapeCall, parsed, guessCall, persistVars, tileVars, clockVars, fcVars, snapVars, detailVars, storeVars,
                   taskVars, roundStartTime, questionText, options, correctOption,
                   resultCorrect, resultStartTime>>

\* pickNewTarget: `if len(g.flights) == 0`
pickEmptyCheck ==
    /\ reader.pc = "entered"
    /\ IF Len(flights) = 0
       THEN /\ timers' = timers + 1
            /\ reader' = Idle
       ELSE /\ reader' = [reader EXCEPT !.pc = "checked", !.snap = flights]
            /\ UNCHANGED timers
    /\ UNCHANGED <<variant, drawCall, scrapeCall, parsed, guessCall, persistVars, tileVars, clockVars, fcVars, snapVars, detailVars, roundVars,
                   storeVars, selectTasks, roundTasks, saveTasks>>

\* pickNewTarget: `idx := rand.Intn(len(g.flights))`; rand.Intn(0) panics
pickIndex(idx) ==
    /\ reader.pc = "checked"
    /\ IF Len(flights) = 0
       THEN reader' = [reader EXCEPT !.pc = "panic", !.mixed = TRUE]
       ELSE /\ idx \in 1..Len(flights)
            /\ reader' = [reader EXCEPT !.pc = "picked", !.i = idx,
                                        !.mixed = @ \/ flights # reader.snap]
    /\ UNCHANGED <<variant, drawCall, scrapeCall, parsed, guessCall, persistVars, tileVars, clockVars, fcVars, snapVars, gameVars>>

\* pickNewTarget: `g.targetPlane = &g.flights[idx]` and the rest of the call;
\* an index past the end panics
pickElement ==
    /\ reader.pc = "picked"
    /\ IF reader.i > Len(flights)
       THEN /\ reader' = [reader EXCEPT !.pc = "panic", !.mixed = TRUE]
            /\ UNCHANGED <<targetPlane, selectedPlane, detailVars, roundTasks>>
       ELSE /\ reader' = [reader EXCEPT !.pc = "idle",
                                        !.mixed = @ \/ flights # reader.snap]
            /\ targetPlane' = <<flights[reader.i]>>
            /\ selectedPlane' = <<flights[reader.i]>>
            /\ resolvedDetails' = <<>>
            /\ resolving' = TRUE
            /\ roundTasks' = [roundTasks EXCEPT ![flights[reader.i].Icao24] = @ + 1]
    /\ Total(roundTasks) < MaxResolvers
    /\ UNCHANGED <<variant, drawCall, scrapeCall, parsed, guessCall, persistVars, tileVars, clockVars, fcVars, flights, roundVars, storeVars,
                   selectTasks, saveTasks, timers>>

\* checkPlaneClick: `for i := range g.flights` evaluates the list once
clickRange ==
    /\ reader.pc = "idle"
    /\ state \in {"Map", "GamePlaying"}
    /\ Total(selectTasks) < MaxResolvers
    /\ Len(flights) # 0
    /\ reader' = [Idle EXCEPT !.pc = "iter", !.snap = flights, !.i = 1]
    /\ UNCHANGED <<variant, drawCall, scrapeCall, parsed, guessCall, persistVars, tileVars, clockVars, fcVars, snapVars, gameVars>>

\* checkPlaneClick: `f := &g.flights[i]`, near telling whether the plane is
\* the closest one within the click radius so far; after the last position,
\* selectPlane(found)
clickElement(near) ==
    /\ reader.pc = "iter"
    /\ IF reader.i > Len(flights)
       THEN /\ reader' = [reader EXCEPT !.pc = "panic", !.mixed = TRUE]
            /\ UNCHANGED <<selectedPlane, detailVars, selectTasks>>
       ELSE LET found == IF near THEN <<flights[reader.i]>> ELSE reader.found
                mixed == reader.mixed \/ flights # reader.snap
            IN IF reader.i < Len(reader.snap)
               THEN /\ reader' = [reader EXCEPT !.i = @ + 1, !.found = found,
                                                !.mixed = mixed]
                    /\ UNCHANGED <<selectedPlane, detailVars, selectTasks>>
               ELSE /\ reader' = [Idle EXCEPT !.mixed = mixed]
                    /\ IF found # <<>> THEN selectPlane(found[1])
                       ELSE UNCHANGED <<selectedPlane, detailVars, selectTasks>>
    /\ UNCHANGED <<variant, drawCall, scrapeCall, parsed, guessCall, persistVars, tileVars, clockVars, fcVars, flights, targetPlane, roundVars,
                   storeVars, roundTasks, saveTasks, timers>>

\* the timer of pickNewTarget fires: a new call on the timer's goroutine
raceRetryTimer ==
    /\ reader.pc = "idle"
    /\ timers > 0
    /\ timers' = timers - 1
    /\ state' = "RoundSetup"
    /\ showResult' = FALSE
    /\ wrongGuess' = ""
    /\ reader' = [Idle EXCEPT !.pc = "entered"]
    /\ UNCHANGED <<variant, drawCall, scrapeCall, parsed, guessCall, persistVars, tileVars, clockVars, fcVars, snapVars, detailVars, storeVars,
                   selectTasks, roundTasks, saveTasks, score, round, roundStartTime,
                   questionText, options, correctOption, resultCorrect, resultStartTime>>

(***************************************************************************)
(* The refresher's success branch, access by access.  Nothing orders its   *)
(* reads and writes of g.selectedPlane and g.targetPlane with the writes   *)
(* of the frame loop (selectPlane, pickNewTarget, the close button).       *)
(***************************************************************************)

RebindPcs == {"selCheck", "selLoop", "selAssign", "tgtCheck", "tgtLoop", "tgtAssign"}

\* the first record of fs with the transponder id of p[1], <<>> if none
RECURSIVE Match(_, _)
Match(p, fs) ==
    IF fs = <<>> THEN <<>>
    ELSE IF Head(fs).Icao24 = p[1].Icao24 THEN <<Head(fs)>>
    ELSE Match(p, Tail(fs))

\* refreshFlights: FetchFlights and, on success, `g.flights = flights`
rebindFetch(auth, resp) ==
    /\ reader.pc = "idle"
    /\ fetchErr # "panic"
    /\ now >= wake
    /\ FetchFlights(auth, resp)
    /\ wake' = now + pollSleep
    /\ IF fetchErr' # "none"
       THEN UNCHANGED <<flights, reader>>
       ELSE /\ flights' = fetchRet'
            /\ reader' = [Idle EXCEPT !.pc = "selCheck", !.snap = fetchRet']
    /\ UNCHANGED <<variant, drawCall, scrapeCall, parsed, guessCall, persistVars, tileVars, now, selectedPlane, targetPlane, gameVars>>

\* `if g.selectedPlane != nil` / `if g.targetPlane != nil`
rebindCheck ==
    /\ reader.pc \in {"selCheck", "tgtCheck"}
    /\ reader' =
         IF reader.pc = "selCheck"
         THEN [reader EXCEPT !.pc = IF selectedPlane # <<>> THEN "selLoop" ELSE "tgtCheck"]
         ELSE IF targetPlane # <<>> THEN [reader EXCEPT !.pc = "tgtLoop"]
         ELSE Idle
    /\ UNCHANGED <<variant, drawCall, scrapeCall, parsed, guessCall, persistVars, tileVars, clockVars, fcVars, snapVars, gameVars>>

\* `for _, f := range flights { if f.Icao24 == g.selectedPlane.Icao24 {`:
\* the loop reads through the pointer; a nil pointer panics
rebindLoop ==
    /\ reader.pc \in {"selLoop", "tgtLoop"}
    /\ LET p == IF reader.pc = "selLoop" THEN selectedPlane ELSE targetPlane
           after == IF reader.pc = "selLoop" THEN "tgtCheck" ELSE "idle"
           assign == IF reader.pc = "selLoop" THEN "selAssign" ELSE "tgtAssign"
       IN reader' =
            IF reader.snap = <<>> THEN [reader EXCEPT !.pc = after]
            ELSE IF p = <<>> THEN [reader EXCEPT !.pc = "panic"]
            ELSE IF Match(p, reader.snap) = <<>> THEN [reader EXCEPT !.pc = after]
            ELSE [reader EXCEPT !.pc = assign, !.found = Match(p, reader.snap)]
    /\ UNCHANGED <<variant, drawCall, scrapeCall, parsed, guessCall, persistVars, tileVars, clockVars, fcVars, snapVars, gameVars>>

\* `g.selectedPlane = &f; break` / `g.targetPlane = &f; break`
rebindAssign ==
    /\ reader.pc \in {"selAssign", "tgtAssign"}
    /\ IF reader.pc = "selAssign"
       THEN /\ selectedPlane' = reader.found
            /\ reader' = [reader EXCEPT !.pc = "tgtCheck", !.found = <<>>]
            /\ UNCHANGED targetPlane
       ELSE /\ targetPlane' = reader.found
            /\ reader' = Idle
            /\ UNCHANGED selectedPlane
    /\ UNCHANGED <<variant, drawCall, scrapeCall, parsed, guessCall, persistVars, tileVars, clockVars, fcVars, flights, gameVars>>

PlaneIds == { a.icao24 : a \in RawAircraft }
Callsigns == { Flight(a).Callsign : a \in RawVectors }

\* NewGame, started on a data directory whose airports.json holds `file`
NewGameOn(file) ==
    /\ reader = Idle
    /\ guessCall = <<>>
    /\ scrapeCall = <<>>
    /\ parsed = <<>>
    /\ drawCall = <<>>
    /\ currentUser = UserStats("")
    /\ usersFile = [n \in Names |-> <<>>]
    /\ scoresFile = <<>>
    /\ flights = <<>>
    /\ selectedPlane = <<>>
    /\ targetPlane = <<>>
    /\ state = "Login"
    /\ resolvedDetails = <<>>
    /\ resolving = FALSE
    /\ score = 0
    /\ round = 0
    /\ roundStartTime = 0
    /\ questionText = [ask |-> "", callsign |-> ""]
    /\ options = <<>>
    /\ correctOption = ""
    /\ wrongGuess = ""
    /\ showResult = FALSE
    /\ resultCorrect = FALSE
    /\ resultStartTime = 0
    /\ airportsFile = file
    /\ airports = refreshAirports(file)
    /\ selectTasks = [c \in Callsigns |-> 0]
    /\ roundTasks = [id \in PlaneIds |-> 0]
    /\ saveTasks = {}
    /\ timers = 0

NewGame == NewGameOn(<<>>)

\* the player of the game specifications
GameUsers == {"ann"}

\* the endpoint's answers of the game specification: rate limited, or a body
\* of no aircraft, or of all of them positioned
GameResponses ==
    { r \in Responses : \/ r.kind = "429"
                        \/ /\ r.kind = "ok"
                           /\ Len(r.states) \in {0, Cardinality(RawAircraft)}
                           /\ \A i \in 1..Len(r.states) :
                                r.states[i].hasPos /\ r.states[i].shape = "full" }

RaceNext ==
    \/ Tick(cacheDuration)
    \/ \E resp \in GameResponses : refreshFlights("fail", resp)
    \/ \E name \in GameUsers : login(name)
    \/ raceStartGame
    \/ pickEmptyCheck
    \/ \E idx \in TargetChoices : pickIndex(idx)
    \/ pickElement
    \/ raceRetryTimer
    \/ clickRange
    \/ \E near \in BOOLEAN : clickElement(near)

\* the frame loop's writes of the selection and the target, each in one
\* step, next to the refresher taken access by access
RebindNext ==
    \/ Tick(cacheDuration)
    \/ \E resp \in GameResponses : rebindFetch("fail", resp)
    \/ rebindCheck
    \/ rebindLoop
    \/ rebindAssign
    \/ \E name \in GameUsers : login(name)
    \/ \E i \in 1..Len(flights) : checkPlaneClick(i)
    \/ closeButton
    \/ \E idx \in TargetChoices : startGame(idx)

\* the rounds of a game that is not quit
RoundNext ==
    \/ Tick(cacheDuration)
    \/ \E resp \in GameResponses : refreshFlights("fail", resp)
    \/ \E name \in GameUsers : login(name)
    \/ logout
    \/ \E idx \in TargetChoices : startGame(idx)
    \/ \E idx \in TargetChoices : UpdateResult(idx)
    \/ \E city \in Elems(options) : guess(city, 0)
    \/ \E id \in PlaneIds, res \in ScrapeResults, idx \in TargetChoices, s1, s2 \in Seeds :
         pickNewTargetDone(id, res, idx, s1, s2)
    \/ \E idx \in TargetChoices : retryTimer(idx)

(***************************************************************************)
(* setupRoundWithData in two steps.  It runs on the goroutine of           *)
(* pickNewTarget and writes g.resolvedDetails and g.resolving first and    *)
(* g.state last, with the two SaveAirport calls and generateOptions (file  *)
(* reads and writes) in between; the frame loop draws the info panel from  *)
(* the fields as they are.                                                 *)
(***************************************************************************)

\* `g.resolvedDetails = details; g.resolving = false`
setupStore(id, res) ==
    /\ roundTasks[id] > 0
    /\ resolving
    /\ res # <<>>
    /\ resolvedDetails' = res
    /\ resolving' = FALSE
    /\ UNCHANGED <<variant, drawCall, scrapeCall, parsed, reader, guessCall, persistVars, tileVars, clockVars, fcVars, snapVars,
                   roundVars, storeVars, taskVars>>

\* the rest of setupRoundWithData, from the validation on
setupRest(id, idx, s1, s2) ==
    /\ roundTasks[id] > 0
    /\ ~resolving
    /\ resolvedDetails # <<>>
    /\ setupRoundWithData(resolvedDetails[1], idx, s1, s2, [roundTasks EXCEPT ![id] = @ - 1])
    /\ UNCHANGED <<variant, drawCall, scrapeCall, parsed, reader, guessCall, persistVars, tileVars, clockVars, fcVars, flights, score, round,
                   resultCorrect, resultStartTime, selectTasks, saveTasks>>

\* FetchFlightDetails failed: the goroutine picks another target
setupFails(id, idx) ==
    /\ resolving
    /\ pickNewTargetDone(id, <<>>, idx, 0, 0)

\* drawUI: the info panel shows the Model, Origin and Dest lines
PanelShowsDetails ==
    /\ selectedPlane # <<>>
    /\ ~resolving
    /\ resolvedDetails # <<>>

\* drawUI, "Masking logic": the condition under which labels are hidden
Masking ==
    /\ state = "GamePlaying"
    /\ targetPlane # <<>>
    /\ selectedPlane[1].Icao24 = targetPlane[1].Icao24

\* the text of the Origin line
showOrigin ==
    IF Masking /\ correctOption = resolvedDetails[1].Origin
    THEN "???" ELSE resolvedDetails[1].Origin

\* the text of the Dest line
showDest ==
    IF Masking /\ correctOption = resolvedDetails[1].RealDestination
    THEN "???" ELSE resolvedDetails[1].RealDestination

\* the panel shows the details of the target of the round, stored by the
\* goroutine of the round, and no guess has been accepted yet
RoundDetailsShown ==
    /\ PanelShowsDetails
    /\ targetPlane # <<>>
    /\ selectedPlane[1].Icao24 = targetPlane[1].Icao24
    /\ ~InvalidDetails(resolvedDetails[1])
    /\ \/ state = "RoundSetup" /\ roundTasks[targetPlane[1].Icao24] > 0
       \/ state = "GamePlaying" /\ ~showResult

\* the resolver fails, or returns valid details, or details without destination
ChainResults ==
    { <<>>, <<ResolvedDetails("Paris", "Oslo")>>, <<ResolvedDetails("", "Oslo")>> }

\* rounds whose set-up runs step by step under the frame loop
MaskNext ==
    \/ Tick(cacheDuration)
    \/ \E resp \in GameResponses : refreshFlights("fail", resp)
    \/ \E name \in GameUsers : login(name)
    \/ \E idx \in TargetChoices : startGame(idx)
    \/ \E id \in PlaneIds, res \in ChainResults : setupStore(id, res)
    \/ \E id \in PlaneIds, idx \in TargetChoices : setupRest(id, idx, 0, 0)
    \/ \E id \in PlaneIds, idx \in TargetChoices : setupFails(id, idx)
    \/ \E idx \in TargetChoices : retryTimer(idx)
    \/ \E city \in Elems(options) : guess(city, 0)
    \/ \E idx \in TargetChoices : UpdateResult(idx)
    \/ closeButton

\* whole games with every button of the player (play, guess, quit and close,
\* the panel's X, a click on a plane) and every completion of the round
\* set-up; the options are shuffled one way and the player guesses wrong
ChainNext ==
    \/ Tick(cacheDuration)
    \/ \E resp \in GameResponses : refreshFlights("fail", resp)
    \/ \E name \in GameUsers : login(name)
    \/ \E idx \in TargetChoices : startGame(idx)
    \/ \E idx \in TargetChoices : UpdateResult(idx)
    \/ \E city \in Elems(options) \ {correctOption} : guess(city, 0)
    \/ \E id \in PlaneIds, res \in ChainResults, idx \in TargetChoices :
         pickNewTargetDone(id, res, idx, 0, 0)
    \/ \E idx \in TargetChoices : retryTimer(idx)
    \/ endGame
    \/ closeButton
    \/ \E i \in 1..Len(flights) : checkPlaneClick(i)

\* the labels handed to SaveAirport: cities, and the three it refuses
SaveLabels == {"Berlin", "Oslo", "Paris", "", "Unknown", "N/A"}

\* the labels SaveAirport refuses
Refused == {"", "Unknown", "N/A"}

\* a goroutine that will save a destination and an origin is started
goSaveAirports(dest, origin) ==
    /\ <<dest, origin>> \notin saveTasks
    /\ Cardinality(saveTasks) <= MaxSaveTasks
    /\ saveTasks' = saveTasks \cup {<<dest, origin>>}
    /\ UNCHANGED <<variant, drawCall, scrapeCall, parsed, reader, guessCall, persistVars, tileVars, clockVars, fcVars, snapVars, detailVars, roundVars,
                   storeVars, selectTasks, roundTasks, timers>>

\* saving goroutines side by side; each SaveAirport call runs under dm.mu
\* from its read of the file to its write
StoreNext ==
    \/ \E dest, origin \in SaveLabels : goSaveAirports(dest, origin)
    \/ \E t \in saveTasks : saveAirportStep(t)

\* the store is empty, or holds a sorted list without duplicates
InitStore ==
    /\ variant \in Variants
    /\ NewTileLoader
    /\ now = StartTime
    /\ wake = StartTime
    /\ clientID = ""
    /\ clientSec = ""
    /\ NewFlightClient
    /\ \E file \in {<<>>, <<"London">>, <<"Helsinki", "Paris">>} : NewGameOn(file)

\* the map with its flight info panel, outside a game
SelectNext ==
    \/ Tick(cacheDuration)
    \/ \E resp \in GameResponses : refreshFlights("fail", resp)
    \/ \E name \in GameUsers : login(name)
    \/ logout
    \/ \E i \in 1..Len(flights) : checkPlaneClick(i)
    \/ closeButton
    \/ \E c \in Callsigns, res \in ScrapeResults : selectPlaneDone(c, res)
    \/ \E t \in saveTasks : saveAirportStep(t)

Init ==
    /\ variant \in Variants
    /\ NewTileLoader
    /\ now = StartTime
    /\ wake = StartTime
    /\ \E c \in Credentials : clientID = c[1] /\ clientSec = c[2]
    /\ NewFlightClient
    /\ NewGame

\* the lists SaveAirport can have left in airports.json
StoreLists == { SortStrings(q) : q \in UNION { [1..n -> Elems(LabelOrder)] : n \in 0..1 } }
               \cup { SaveAirport(a, SaveAirport(b, SaveAirport(c, <<>>))) :
                        a, b, c \in Elems(LabelOrder) }
               \cup { LabelOrder }

\* the answers setupRoundWithData can hand to generateOptions
Answers == DestLabels \cup OriginLabels \cup Elems(LabelOrder)

\* generateOptions called for the answer `correct`
callGenerateOptions(correct, s1, s2) ==
    /\ correctOption' = correct
    /\ airports' = refreshAirports(airportsFile)
    /\ options' = generateOptions(correct, airportsFile, s1, s2)
    /\ UNCHANGED <<variant, drawCall, scrapeCall, parsed, reader, guessCall, persistVars, tileVars, clockVars, fcVars, snapVars, detailVars,
                   taskVars, airportsFile, state, score, round, roundStartTime,
                   questionText, wrongGuess, showResult, resultCorrect, resultStartTime>>

OptionsNext == \E correct \in Answers, s1, s2 \in Seeds : callGenerateOptions(correct, s1, s2)

InitOptions ==
    /\ variant \in Variants
    /\ NewTileLoader
    /\ now = StartTime
    /\ wake = StartTime
    /\ clientID = ""
    /\ clientSec = ""
    /\ NewFlightClient
    /\ \E file \in StoreLists : NewGameOn(file)

SpecOptions == InitOptions /\ [][OptionsNext]_vars

\* the list refreshFlights holds after a poll that saw every aircraft
PlayFlights ==
    ParseStates((CHOOSE r \in GameResponses :
                   r.kind = "ok" /\ Len(r.states) = Cardinality(RawAircraft)).states)

\* the statistics of a player who has a game of 300 points behind them
PriorStats(name) ==
    [Name |-> name, GamesPlayed |-> 1, TotalScore |-> 300, BestScore |-> 300]

\* a game under way: setupRoundWithData has just set up round r (at time t0)
\* for the first aircraft of the list, bound from Oslo for Paris; prior is
\* what users.json held for the player at login, sc the score of the rounds
\* before r
RoundSetUpAt(r, t0, name, prior, sc) ==
    LET details == ResolvedDetails("Paris", "Oslo")
        file == SaveAirport("Oslo", SaveAirport("Paris", <<>>))
    IN /\ reader = Idle
       /\ guessCall = <<>>
       /\ scrapeCall = <<>>
       /\ parsed = <<>>
       /\ drawCall = <<>>
       /\ currentUser = IF prior = <<>> THEN UserStats(name) ELSE prior[1]
       /\ usersFile = [n \in Names |-> IF n = name THEN prior ELSE <<>>]
       /\ scoresFile = IF prior = <<>> THEN <<>>
                       ELSE <<ScoreEntry(name, prior[1].BestScore)>>
       /\ flights = PlayFlights
       /\ fc_cache = PlayFlights
       /\ lastFetch = StartTime
       /\ token = ""
       /\ fetchRet = PlayFlights
       /\ fetchErr = "none"
       /\ netCalls = <<"states">>
       /\ wake = StartTime + pollSleep
       /\ targetPlane = <<PlayFlights[1]>>
       /\ selectedPlane = <<PlayFlights[1]>>
       /\ state = "GamePlaying"
       /\ resolvedDetails = <<details>>
       /\ resolving = FALSE
       /\ score = sc
       /\ round = r
       /\ roundStartTime = t0
       /\ questionText = [ask |-> "going", callsign |-> PlayFlights[1].Callsign]
       /\ correctOption = "Paris"
       /\ options = generateOptions("Paris", file, 0, 0)
       /\ wrongGuess = ""
       /\ showResult = FALSE
       /\ resultCorrect = FALSE
       /\ resultStartTime = 0
       /\ airportsFile = file
       /\ airports = refreshAirports(file)
       /\ selectTasks = [c \in Callsigns |-> 0]
       /\ roundTasks = [id \in PlaneIds |-> 0]
       /\ saveTasks = {}
       /\ timers = 0

\* the same with no point scored so far
RoundSetUp(r, t0, name, prior) == RoundSetUpAt(r, t0, name, prior, 0)

InitPlay ==
    /\ variant \in Variants
    /\ NewTileLoader
    /\ now = StartTime
    /\ clientID = ""
    /\ clientSec = ""
    /\ \E r \in 1..MaxRounds, t0 \in {0, StartTime}, name \in Names :
         \E prior \in {<<>>, <<PriorStats(name)>>} : RoundSetUp(r, t0, name, prior)

\* one round of play, its result, and the end of the game
PlayNext ==
    \/ Tick(pollSleep)
    \/ \E city \in Elems(options), frac \in Fractions : guess(city, frac)
    \/ \E idx \in TargetChoices : UpdateResult(idx)
    \/ endGame
    \/ \E idx \in TargetChoices : startGame(idx)

SpecPlay == InitPlay /\ [][PlayNext]_vars

\* a game of one player, new or known, with any of its rounds just set up,
\* the rounds before it all lost or all won at once
InitGames ==
    /\ variant \in Variants
    /\ NewTileLoader
    /\ now = StartTime
    /\ clientID = ""
    /\ clientSec = ""
    /\ \E r \in 1..MaxRounds, name \in GameUsers :
         \E prior \in {<<>>, <<PriorStats(name)>>}, sc \in {0, MaxRoundScore * (r - 1)} :
           RoundSetUpAt(r, StartTime, name, prior, sc)

\* a game from any of its rounds to its end and into the next game: guesses
\* right and wrong on the whole second, results, set-ups with their retries
\* over snapshots with and without aircraft, quit and close
GamesNext ==
    \/ Tick(cacheDuration)
    \/ \E resp \in GameResponses : refreshFlights("fail", resp)
    \/ \E city \in Elems(options) : guess(city, 0)
    \/ \E idx \in TargetChoices : UpdateResult(idx)
    \/ \E idx \in TargetChoices : startGame(idx)
    \/ \E id \in PlaneIds, res \in ChainResults, idx \in TargetChoices :
         pickNewTargetDone(id, res, idx, 0, 0)
    \/ \E idx \in TargetChoices : retryTimer(idx)
    \/ endGame

\* details that both variants take as valid
ClassifyDetails ==
    { ResolvedDetails(dst, org) : dst \in {"Helsinki", "Paris", "Vantaa"},
                                  org \in {"Oslo", "London"} }

\* setupRoundWithData called with `details` for the target of the round
callSetupRound(details, s1, s2) ==
    /\ targetPlane # <<>>
    /\ setupRoundWithData(details, 1, s1, s2, roundTasks)
    /\ UNCHANGED <<variant, drawCall, scrapeCall, parsed, reader, guessCall, persistVars, tileVars, clockVars, fcVars, flights, score, round,
                   resultCorrect, resultStartTime, selectTasks, saveTasks>>

ClassifyNext == \E details \in ClassifyDetails, s1, s2 \in Seeds : callSetupRound(details, s1, s2)

SpecClassify == InitPlay /\ [][ClassifyNext]_vars

\* the scores of the entries handed to AddScore
ScoreValues == {0, 100, 200}

\* DataManager.AddScore called with `entry`
callAddScore(entry) ==
    /\ scoresFile' = AddScore(entry, scoresFile)
    /\ UNCHANGED <<variant, drawCall, scrapeCall, parsed, reader, guessCall, currentUser, usersFile, tileVars, clockVars,
                   fcVars, snapVars, gameVars>>

ScoresNext == \E sc \in ScoreValues : callAddScore(ScoreEntry("ann", sc))

\* the frame loop (drawMap's GetTile, the raylib Update's drain, a click on a
\* plane, the panel's close button) next to the goroutines it starts and the
\* refresher; one tile of the view is followed
UIKey == [Z |-> TileZoom, X |-> 0, Y |-> 0]

UINext ==
    \/ GetTile(UIKey)
    \/ fetchTileRecheck(UIKey)
    \/ \E out \in FetchOutcomes : fetchTile(UIKey, out)
    \/ Update
    \/ \E resp \in GameResponses : refreshFlights("fail", resp)
    \/ \E name \in GameUsers : login(name)
    \/ \E i \in 1..Len(flights) : checkPlaneClick(i)
    \/ closeButton
    \/ \E c \in Callsigns, res \in ScrapeResults : selectPlaneDone(c, res)
    \/ \E t \in saveTasks : saveAirportStep(t)

\* the game specifications start without API credentials
InitGame == Init /\ clientID = ""

SpecTile == Init /\ [][TileNext]_vars

\* a loader that has not been asked for a tile, with room for DrawKeys
InitDraw ==
    /\ variant \in Variants
    /\ cache = {}
    /\ pending = {}
    /\ responseChan = <<>>
    /\ fetchStarted = [k \in DrawKeys |-> 0]
    /\ fetching = [k \in DrawKeys |-> 0]
    /\ getTileRet = "none"
    /\ now = StartTime
    /\ wake = StartTime
    /\ clientID = ""
    /\ clientSec = ""
    /\ NewFlightClient
    /\ NewGame

SpecDraw == InitDraw /\ [][DrawNext]_vars

\* the go_raylib loader before its first GetTile, over the row QueueKeys
InitTileLive ==
    /\ variant = "raylib"
    /\ cache = {}
    /\ pending = {}
    /\ responseChan = <<>>
    /\ fetchStarted = [k \in QueueKeys |-> 0]
    /\ fetching = [k \in QueueKeys |-> 0]
    /\ getTileRet = "none"
    /\ now = StartTime
    /\ wake = StartTime
    /\ clientID = ""
    /\ clientSec = ""
    /\ NewFlightClient
    /\ NewGame

\* the render loop keeps calling Update, and a fetch task that can send does
SpecTileLive ==
    /\ InitTileLive
    /\ [][TileLiveNext]_vars
    /\ WF_vars(Update)
    /\ \A k \in QueueKeys : WF_vars(sendTile(k))

SpecSelect == InitGame /\ [][SelectNext]_vars

SpecStore == InitStore /\ [][StoreNext]_vars

SpecScores == InitGame /\ [][ScoresNext]_vars

SpecUnits == InitGame /\ [][UnitsNext]_vars

SpecScrape == InitGame /\ [][ScrapeNext]_vars

SpecUI == InitGame /\ [][UINext]_vars

SpecRace == InitGame /\ [][RaceNext]_vars

SpecRebind == InitGame /\ [][RebindNext]_vars

SpecRound == InitGame /\ [][RoundNext]_vars

SpecChain == InitGame /\ [][ChainNext]_vars

SpecMask == InitGame /\ [][MaskNext]_vars

SpecGames == InitGames /\ [][GamesNext]_vars

SpecFetch == Init /\ [][FetchNext]_vars

\* time passes, and the goroutine of refreshFlights runs whenever its sleep
\* is over
SpecFetchLive ==
    /\ SpecFetch
    /\ WF_vars(Tick(1))
    /\ WF_vars(\E auth \in AuthOutcomes, resp \in Responses : refreshFlights(auth, resp))

(***************************************************************************)
(* Claims                                                                  *)
(***************************************************************************)

\* a step that is one FetchFlights call (an iteration of refreshFlights)
FetchCalled == wake' # wake

\* C1: for every TileKey at most one fetch of that key is in flight at any
\* time, in the tile loader of both variants (a GetTile for a key whose fetch
\* is pending launches no second fetch).
C1_AtMostOneFetchPerKey == \A k \in TileKeys : fetching[k] <= 1

\* C2 as claimed: every FetchFlights call made less than cacheDuration after
\* a prior successful fetch issues no request and returns the snapshot stored
\* by that success, whatever number of aircraft it holds.
C2_FreshCallServedFromCache ==
    [][ (FetchCalled /\ Since(lastFetch) < cacheDuration)
        => (netCalls' = <<>> /\ fetchErr' = "none" /\ fetchRet' = fc_cache
            /\ fc_cache' = fc_cache) ]_vars

\* C2 amended: every FetchFlights call made less than cacheDuration after a
\* prior successful fetch that stored at least one aircraft issues no request
\* (no token exchange, no state-vector query) and returns the stored snapshot.
C2_FreshNonEmptyServedFromCache ==
    [][ (FetchCalled /\ Since(lastFetch) < cacheDuration /\ Len(fc_cache) > 0)
        => (netCalls' = <<>> /\ fetchErr' = "none" /\ fetchRet' = fc_cache
            /\ fc_cache' = fc_cache /\ token' = token) ]_vars

\* a call at least a second after the success it is served from
C2_Witness ==
    /\ wake = now + pollSleep
    /\ netCalls = <<>>
    /\ fetchRet = fc_cache
    /\ Len(fc_cache) > 0
    /\ Since(lastFetch) > 0
    /\ Since(lastFetch) < cacheDuration

C4_FailureClearsPending ==
    [][ \A k \in TileKeys :
          \/ /\ variant = "raylib"     \* Update met undecodable bytes for k
             /\ responseChan # <<>>
             /\ responseChan' = <<>>
             /\ \E i \in 1..Len(responseChan) : responseChan[i] = TileResponse(k, "bad")
          \/ /\ variant = "raylib"     \* fetchTile for k ended without a response
             /\ fetching'[k] < fetching[k]
             /\ responseChan' = responseChan
          => (k \notin pending' /\ k \notin cache') ]_vars

\* C5: every call that reads g.flights sees one list from its first read to
\* its last: no read of pickNewTarget or checkPlaneClick sees another list
\* than the call's first read, and no position computed from one list is
\* past the end of the list it is applied to.
C5_ReadersSeeOneSnapshot == ~reader.mixed /\ reader.pc # "panic"

\* C6: when the resolver call of selectPlane completes for a callsign that is
\* not the callsign of the current selection, neither resolvedDetails nor
\* resolving nor any round field changes.
C6_StaleCompletionIgnored ==
    [][\A c \in Callsigns :
         (/\ selectTasks'[c] < selectTasks[c]
          /\ (selectedPlane = <<>> \/ selectedPlane[1].Callsign # c))
         => UNCHANGED <<detailVars, roundVars>>]_vars

ResolvedLabel(l) == l # "" /\ l # "Unknown"

\* C7: a round enters GamePlaying only with resolved details whose
\* destination and origin are both non-empty and not "Unknown".
C7_PlayingOnlyWithValidRoute ==
    [][(state # "GamePlaying" /\ state' = "GamePlaying")
         => /\ resolvedDetails' # <<>>
            /\ ResolvedLabel(resolvedDetails'[1].RealDestination)
            /\ ResolvedLabel(resolvedDetails'[1].Origin)]_vars

\* C8: when the resolver of a round's target returns an error, pickNewTarget
\* runs again (a new resolver call for a plane of the current list, or the
\* retry timer when the list is empty), the state is RoundSetup afterwards,
\* and round and score are unchanged.
C8_ResolverFailureRetries ==
    [][(\E id \in PlaneIds, idx \in TargetChoices, s1, s2 \in Seeds :
          pickNewTargetDone(id, <<>>, idx, s1, s2))
         => /\ state' = "RoundSetup"
            /\ round' = round
            /\ score' = score
            /\ Total(roundTasks') + timers' = Total(roundTasks) + timers
            /\ IF Len(flights) = 0
               THEN timers' = timers + 1
               ELSE /\ targetPlane' \in { <<flights[i]>> : i \in 1..Len(flights) }
                    /\ resolving']_vars

\* a resolver failure of round 1 found the list empty: the retry waits on
\* its timer, the details still unresolved
C8_Witness ==
    /\ state = "RoundSetup"
    /\ timers = 1
    /\ round = 1
    /\ score = 0
    /\ resolvedDetails = <<>>
    /\ resolving

\* C9: the options generateOptions produces are at most 4, pairwise
\* distinct, and hold the correct answer exactly once.
C9_OptionsDistinctWithAnswer ==
    (options # <<>>) =>
        /\ Len(options) <= MaxOptions
        /\ \A i, j \in 1..Len(options) : options[i] = options[j] => i = j
        /\ Cardinality({ i \in 1..Len(options) : options[i] = correctOption }) = 1

\* options padded from the fallback list, which holds the answer itself
C9_Witness ==
    /\ Len(options) = MaxOptions
    /\ airportsFile # <<>>
    /\ Len(airportsFile) < MaxOptions - 1
    /\ correctOption \in Elems(Fallbacks)
    /\ correctOption \notin Elems(airportsFile)

\* C10: the options of a round that is being played never hold the label
\* "Unknown".
C10_NoUnknownOption ==
    (state = "GamePlaying") => "Unknown" \notin Elems(options)

\* C11: a guess made while a result is showing changes none of score,
\* resultCorrect, wrongGuess and resultStartTime (nor the result flag), so a
\* round scores at most once.
C11_GuessIgnoredWhileResultShows ==
    [][(showResult /\ \E city \in Elems(options), frac \in Fractions : guess(city, frac))
         => UNCHANGED <<score, resultCorrect, wrongGuess, resultStartTime, showResult>>]_vars

\* a second guess, for another label, was ignored after a correct one
C11_Witness ==
    /\ guessCall # <<>>
    /\ ~guessCall[1].accepted
    /\ guessCall[1].city # correctOption
    /\ showResult
    /\ resultCorrect
    /\ score > 0
    /\ wrongGuess = ""

\* a guess was accepted in this step
GuessAccepted == ~showResult /\ showResult'

\* (20 - e)/20 * 100 rounded to the nearest integer, never below 0
RoundedBonus(q) ==
    LET x == (bonusWindow * SubSecond - q) * 100
        d == bonusWindow * SubSecond
    IN IF x <= 0 THEN 0 ELSE (2 * x + d) \div (2 * d)

\* C12: a correct guess e seconds into the round adds exactly
\* 100 + max(0, round((20 - e)/20 * 100)) to the score.
C12_BonusRoundedToNearest ==
    [][(GuessAccepted /\ resultCorrect')
         => score' = score + 100 + RoundedBonus(guessCall'[1].elapsed)]_vars

\* C13: a correct guess at 0 s adds 200, a correct guess at 20 s or later
\* adds exactly 100, no correct guess adds less than 100, and an incorrect
\* guess adds 0 and records its label as the wrong guess.
C13_ScoreEndpoints ==
    [][GuessAccepted
         => LET e == guessCall'[1].elapsed
            IN IF resultCorrect'
               THEN /\ e = 0 => score' = score + 200
                    /\ e >= bonusWindow * SubSecond => score' = score + 100
                    /\ score' >= score + 100
                    /\ wrongGuess' = wrongGuess
               ELSE /\ score' = score
                    /\ wrongGuess' = guessCall'[1].city]_vars

\* a correct guess later than 20 s scored the bare 100
C13_Witness ==
    /\ guessCall # <<>>
    /\ guessCall[1].accepted
    /\ guessCall[1].elapsed > bonusWindow * SubSecond
    /\ resultCorrect
    /\ score = 100

\* C14: while a result shows, the round does not advance within 2 s of the
\* guess; the Update that runs after more than 2 s advances once: to
\* RoundSetup of round + 1 when round is below 5, to GameOver from round 5;
\* after it no further advance is due.
C14_ResultAdvancesOnce ==
    [][/\ (\E idx \in TargetChoices : UpdateResult(idx))
            => /\ Since(resultStartTime) > resultDelay
               /\ round' = round + 1
               /\ IF round < MaxRounds
                  THEN state' = "RoundSetup" /\ ~showResult'
                  ELSE state' = "GameOver"
               /\ ~(state' = "GamePlaying" /\ showResult')
       /\ (state = "GamePlaying" /\ showResult /\ Since(resultStartTime) <= resultDelay)
            => (round' = round /\ state' \in {"GamePlaying", "Map"})]_vars

\* the result of round 5 was shown and the game is over
C14_Witness ==
    /\ state = "GameOver"
    /\ round = MaxRounds + 1
    /\ guessCall # <<>>
    /\ guessCall[1].accepted
    /\ now > resultStartTime + resultDelay

\* C16: endGame returns to the map with no selection; with round > 0 it
\* saves the player's statistics with the session score added (one more game
\* played, the total raised by the score, the best score raised to it if
\* higher), leaves the other players alone and adds the score to the
\* high-score list; with round = 0 it saves nothing.
C16_EndGamePersistsPlayedSession ==
    [][endGame
         => /\ state' = "Map"
            /\ selectedPlane' = <<>>
            /\ IF round > 0
               THEN LET name == currentUser.Name
                        old == IF usersFile[name] = <<>> THEN UserStats(name)
                               ELSE usersFile[name][1]
                    IN /\ usersFile'[name] # <<>>
                       /\ usersFile'[name][1].GamesPlayed = old.GamesPlayed + 1
                       /\ usersFile'[name][1].TotalScore = old.TotalScore + score
                       /\ usersFile'[name][1].BestScore
                            = (IF score > old.BestScore THEN score ELSE old.BestScore)
                       /\ \A n \in Names \ {name} : usersFile'[n] = usersFile[n]
                       /\ currentUser' = usersFile'[name][1]
                       /\ Len(scoresFile') = Len(scoresFile) + 1
                       /\ \E i \in 1..Len(scoresFile') :
                            scoresFile'[i] = ScoreEntry(name, score)
               ELSE UNCHANGED persistVars]_vars

\* a returning player quit a second game after a correct first guess
C16_Witness ==
    /\ state = "Map"
    /\ currentUser.GamesPlayed = 2
    /\ currentUser.TotalScore > 300
    /\ currentUser.BestScore = 300
    /\ usersFile[currentUser.Name] = <<currentUser>>
    /\ Len(scoresFile) = 2

\* a read of pickNewTarget is made in this step
PickReads == reader.pc \in {"entered", "checked", "picked"} /\ reader' # reader

Count(seq, sc) == Cardinality({ i \in 1..Len(seq) : seq[i].Score = sc })

\* C17: after every AddScore the list has at most 10 entries, in descending
\* order of score, all of them taken from the old list and the new entry,
\* and no entry left out has a higher score than an entry kept.
C17_TopTenSortedDescending ==
    [][\A sc \in ScoreValues :
         callAddScore(ScoreEntry("ann", sc))
         => LET all == Append(scoresFile, ScoreEntry("ann", sc))
                kept == scoresFile'
            IN /\ Len(kept) <= TopScores
               /\ Len(kept) = (IF Len(all) > TopScores THEN TopScores ELSE Len(all))
               /\ \A i \in 1..(Len(kept) - 1) : kept[i].Score >= kept[i + 1].Score
               /\ \A v \in ScoreValues : Count(kept, v) <= Count(all, v)
               /\ \A v \in ScoreValues :
                    Count(kept, v) < Count(all, v)
                    => \A i \in 1..Len(kept) : kept[i].Score >= v]_vars

\* a full list that holds no score of 0: every such entry was left out
C17_Witness ==
    /\ Len(scoresFile) = TopScores
    /\ scoresFile[1].Score = 200
    /\ scoresFile[TopScores].Score = 100

\* C18: a poll that fails leaves the cached snapshot, its timestamp, the
\* flight list and the selected and target planes as they were; the flight
\* list changes only in a poll that succeeds.
C18_FailedPollChangesNothing ==
    [][/\ (FetchCalled /\ fetchErr' # "none")
            => UNCHANGED <<fc_cache, lastFetch, flights, selectedPlane, targetPlane>>
       /\ (flights' # flights \/ fc_cache' # fc_cache)
            => (FetchCalled /\ fetchErr' = "none")]_vars

\* a poll failed while a round's target from the cached snapshot is shown
C18_Witness ==
    /\ fetchErr # "none"
    /\ netCalls # <<>>
    /\ flights # <<>>
    /\ fc_cache = flights
    /\ targetPlane # <<>>
    /\ selectedPlane = targetPlane

\* the fetchTile goroutines of a key that have not returned
TileTasks(k) == fetchStarted[k] + fetching[k]

\* C19: the frame loop waits for no network answer.  GetTile answers from
\* the cache alone (the image when the key is cached, nothing otherwise),
\* stores nothing and at most starts one fetch for the key; a click on a
\* plane returns with the details empty and the resolver started; a tile, a
\* snapshot or a resolved route is stored only by the step of a background
\* task that ends its request.
C19_FrameLoopNeverWaits ==
    [][/\ \A k \in TileKeys :
            GetTile(k)
            => /\ getTileRet' = (IF k \in cache THEN "image" ELSE "empty")
               /\ UNCHANGED <<cache, responseChan, netCalls, fc_cache, flights>>
               /\ TileTasks(k)' = (IF k \in cache \/ k \in pending
                                   THEN TileTasks(k) ELSE TileTasks(k) + 1)
       /\ \A i \in 1..Len(flights) :
            checkPlaneClick(i)
            => /\ resolvedDetails' = <<>>
               /\ resolving'
               /\ Total(selectTasks') = Total(selectTasks) + 1
               /\ UNCHANGED <<cache, responseChan, netCalls, fc_cache, flights>>
       /\ \A k \in TileKeys :
            (k \in cache' \ cache /\ variant = "ebiten") => fetching'[k] = fetching[k] - 1
       /\ Len(responseChan') > Len(responseChan)
            => \E k \in TileKeys : fetching'[k] = fetching[k] - 1
       /\ (resolvedDetails' # resolvedDetails /\ resolvedDetails' # <<>>)
            => Total(selectTasks') = Total(selectTasks) - 1
       /\ flights' # flights => FetchCalled]_vars

\* GetTile has returned nothing for a tile that is still being fetched, and a
\* click has returned while its resolver is still out
C19_Witness ==
    /\ getTileRet = "empty"
    /\ UIKey \notin cache
    /\ fetching[UIKey] > 0
    /\ resolving
    /\ resolvedDetails = <<>>
    /\ selectedPlane # <<>>
    /\ Total(selectTasks) > 0

\* C20: whatever the endpoint answers, FetchFlights ends with a snapshot or
\* with one of its errors: the process is never taken down.
C20_NoFatalResponse == fetchErr \in {"none"} \cup FailureKinds

\* C21: with both credentials set and no token held, a fetch that goes to
\* the network makes one token exchange and then the query; when the exchange
\* gave no token the query is still sent, without the Authorization header,
\* and its answer alone decides the outcome of the fetch.
C21_OneTokenExchangeThenQuery ==
    [][(FetchCalled /\ netCalls' # <<>> /\ clientID # "" /\ clientSec # "" /\ token = "")
         => /\ Len(netCalls') = 2
            /\ netCalls'[1] = "token"
            /\ netCalls'[2] = (IF token' = "" THEN "states" ELSE "states+bearer")
            /\ (token' = "" /\ fetchErr' = "none") => lastFetch' = now]_vars

\* the exchange failed and the anonymous query brought a snapshot
C21_Witness ==
    /\ clientID # "" /\ clientSec # ""
    /\ token = ""
    /\ netCalls = <<"token", "states">>
    /\ fetchErr = "none"
    /\ fetchRet # <<>>

\* C22: the refresher polls for ever: every poll, whatever it brought, sets
\* the next one 5 s later, and a poll that is due does happen (after which
\* the loop sleeps again).
C22_RefresherPollsForever ==
    /\ [][FetchCalled => wake' = now + pollSleep]_vars
    /\ (now >= wake) ~> (now < wake)

\* the name of the home base
HomeBase == "Helsinki"

\* C23: for valid details the round is inbound exactly when the destination
\* contains the name of the home base; an inbound round asks where the target
\* is from and its answer is the origin, any other round asks where it is
\* going and its answer is the destination, in both variants alike.
C23_InboundIffHomeBase ==
    [][\A details \in ClassifyDetails : \A s1, s2 \in Seeds :
         callSetupRound(details, s1, s2)
         => LET inbound == Contains(details.RealDestination, HomeBase)
            IN /\ questionText'.ask = (IF inbound THEN "from" ELSE "going")
               /\ correctOption' = (IF inbound THEN details.Origin
                                    ELSE details.RealDestination)]_vars

\* C24: the details returned for an entry hold as destination the friendly
\* location when present and otherwise the IATA code, as origin the friendly
\* location when present and otherwise the IATA code, and as model the
\* friendly type when present and otherwise the type code; a label with
\* neither is empty.
C24_FriendlyThenCode ==
    (scrapeCall # <<>> /\ scrapeCall[1].details # <<>>) =>
        \E e \in scrapeCall[1].page.entries :
            LET dt == scrapeCall[1].details[1]
            IN /\ dt.RealDestination = PreferFriendly(e.destFriendly, e.destIata)
               /\ dt.Origin = PreferFriendly(e.originFriendly, e.originIata)
               /\ dt.Model = PreferFriendly(e.friendlyType, e.type)

\* the three messages of the claim
MarkerMissing == "no data found in page"
JsonInvalid == "failed to parse json"
FlightsMissing == "no flights data structure"

\* C25: a page without the marker, a page whose embedded object is not
\* valid JSON and a page whose object has no flights structure are reported
\* with three different errors, each of them without details.
C25_ThreeDistinctFailures ==
    (scrapeCall # <<>> /\ scrapeCall[1].page.http = "200") =>
        LET c == scrapeCall[1]
        IN /\ c.err = MarkerMissing <=> ~c.page.marker
           /\ c.err = JsonInvalid <=> (c.page.marker /\ ~c.page.validJson)
           /\ c.err = FlightsMissing
                <=> (c.page.marker /\ c.page.validJson /\ ~c.page.hasFlights)
           /\ c.err \in {MarkerMissing, JsonInvalid, FlightsMissing} => c.details = <<>>
           /\ Cardinality({MarkerMissing, JsonInvalid, FlightsMissing}) = 3

\* the page had the marker and valid JSON, but no flights structure
C25_Witness ==
    /\ scrapeCall # <<>>
    /\ scrapeCall[1].page.http = "200"
    /\ scrapeCall[1].page.marker /\ scrapeCall[1].page.validJson
    /\ scrapeCall[1].err = FlightsMissing
    /\ scrapeCall[1].details = <<>>

\* C26: for every altitude and velocity of a record the stored feet are
\* floor(altitude * 3.28084) and the stored knots floor(velocity * 1.94384);
\* 0 gives 0, 1000 m gives 3280 ft and 10 m/s gives 19 kt.
C26_UnitsFloored ==
    (parsed # <<>>) =>
        LET r == parsed[1]
            a == IF r.altM = <<>> THEN 0 ELSE r.altM[1]
            v == IF r.velMs = <<>> THEN 0 ELSE r.velMs[1]
        IN /\ r.Altitude = (a * FeetPerMetre) \div UnitScale
           /\ r.Velocity = (v * KnotsPerMs) \div UnitScale
           /\ a = 0 => r.Altitude = 0
           /\ a = 1000 => r.Altitude = 3280
           /\ v = 10 => r.Velocity = 19

\* the options and the fields of a round
RoundFields == <<options, state, targetPlane, questionText, correctOption,
                 showResult, wrongGuess, roundStartTime>>

\* a step of the goroutine pickNewTarget starts, or of its 1 s timer
BackgroundRoundStep ==
    \/ \E id \in PlaneIds, res \in ScrapeResults, idx \in TargetChoices, s1, s2 \in Seeds :
         pickNewTargetDone(id, res, idx, s1, s2)
    \/ \E idx \in TargetChoices : retryTimer(idx)

\* C27: the options and the fields of a round (state, target, question,
\* correct answer, showResult, wrongGuess, start time) are written by the
\* frame loop only: no step of the resolver goroutine or of the retry timer
\* changes them.
C27_RoundFieldsSingleWriter ==
    [][BackgroundRoundStep => UNCHANGED RoundFields]_vars

FetchEnds(k) == fetching'[k] = fetching[k] - 1

IdOf(p) == IF p = <<>> THEN "nil" ELSE p[1].Icao24

\* C29: no step of the refresher changes which aircraft is selected or
\* targeted (the id the frame loop chose last, or nil after the close
\* button), and the refresher never reads through a reference that has been
\* cleared meanwhile.
C29_RebindKeepsIdentity ==
    [][(reader' # reader)
         => /\ IdOf(selectedPlane') = IdOf(selectedPlane)
            /\ IdOf(targetPlane') = IdOf(targetPlane)
            /\ reader'.pc # "panic"]_vars

\* the reference p after a re-binding against the snapshot fs
Rebound(p, fs) == IF Match(p, fs) # <<>> THEN Match(p, fs) ELSE p

\* C30: the re-binding after a successful poll does not fail and clears no
\* reference; when it is through with a reference that is set, the reference
\* is the record of the new snapshot with the same transponder id, or, when
\* the snapshot has none, the record it was before.
C30_RebindToleratesDisappearance ==
    [][(reader' # reader)
         => /\ reader'.pc # "panic"
            /\ selectedPlane # <<>> => selectedPlane' # <<>>
            /\ targetPlane # <<>> => targetPlane' # <<>>
            /\ (reader.pc \in {"selLoop", "selAssign"} /\ reader'.pc = "tgtCheck"
                  /\ selectedPlane # <<>>)
                 => selectedPlane' = Rebound(selectedPlane', reader.snap)
            /\ (reader.pc \in {"tgtLoop", "tgtAssign"} /\ reader'.pc = "idle"
                  /\ targetPlane # <<>>)
                 => targetPlane' = Rebound(targetPlane', reader.snap)]_vars

\* the round set-ups under way: resolver calls of pickNewTarget in flight
\* and pending retry timers
SetupActivities == Total(roundTasks) + timers

\* C31: at most one round set-up is under way at any time, and only while
\* the state is RoundSetup.
C31_OneSetupChain ==
    /\ SetupActivities <= 1
    /\ SetupActivities = 1 => state = "RoundSetup"

\* a second game, after a quit: its set-up waits on the retry timer
C31_Witness ==
    /\ currentUser.GamesPlayed >= 1
    /\ state = "RoundSetup"
    /\ timers = 1
    /\ Total(roundTasks) = 0

\* C32: the round index changes only in startGame (to 0, and to 1 by its
\* nextRound) and in the nextRound of the result transition (by one); in
\* RoundSetup and GamePlaying it is within 1..5; GameOver is entered only by
\* the nextRound that follows the result of round 5.
C32_RoundIndex ==
    [][/\ round' # round
            => \/ (\E idx \in TargetChoices : startGame(idx)) /\ round' = 1
               \/ (\E idx \in TargetChoices : UpdateResult(idx)) /\ round' = round + 1
       /\ state' \in {"RoundSetup", "GamePlaying"} => round' \in 1..MaxRounds
       /\ (state' = "GameOver" /\ state # "GameOver")
            => /\ \E idx \in TargetChoices : UpdateResult(idx)
               /\ round = MaxRounds
               /\ showResult]_vars

\* the fifth round's result has been shown and the game is over
C32_Witness ==
    /\ state = "GameOver"
    /\ round = MaxRounds + 1

\* C33: generateOptions always leaves exactly 4 options, for every answer and
\* every stored airport list, with the fallback list of 6 and of 4 cities.
C33_ExactlyFourOptions ==
    (options # <<>>) =>
        /\ Len(options) = MaxOptions
        /\ Cardinality(Elems(options)) = MaxOptions

\* the go_raylib list of 4 fallbacks pads an answer that is one of them, with
\* no usable distractor in the store
C33_Witness ==
    /\ variant = "raylib"
    /\ options # <<>>
    /\ correctOption \in Elems(Fallbacks)
    /\ Elems(airportsFile) \subseteq {correctOption, "Unknown"}
    /\ Elems(options) = Elems(Fallbacks)

\* C34: in every reachable state 0 <= score <= 200 * min(round, 5), hence
\* score <= 1000; within a game the score never decreases; it changes only
\* in guess (a correct guess) and in startGame (reset to 0).
C34_ScoreBounds ==
    /\ score \in 0..(MaxRoundScore * Min(round, MaxRounds))
    /\ [][/\ score' \in 0..(MaxRoundScore * Min(round', MaxRounds))
          /\ score' <= 1000
          /\ score' # score
               => \/ GuessAccepted /\ resultCorrect' /\ score' > score
                  \/ (\E idx \in TargetChoices : startGame(idx)) /\ score' = 0]_vars

\* five rounds won at once: the game is over with the highest score
C34_Witness ==
    /\ state = "GameOver"
    /\ score = MaxRoundScore * MaxRounds
    /\ guessCall # <<>>
    /\ guessCall[1].accepted

\* C35: in the go_raylib loader, with fetches and decodes that succeed and a
\* render loop that keeps calling Update, a requested tile eventually is in
\* the cache with its pending flag cleared, and a fetch task blocked on the
\* full response queue eventually gets its send through: producers and the
\* drain never wait on each other for ever.
C35_TileEventuallyCached ==
    \A k \in QueueKeys :
        /\ (k \in pending) ~> (k \in cache /\ k \notin pending)
        /\ Blocked(k) ~> (fetching[k] = 0)

\* ten answers queued and the eleventh fetch task blocked at its send
C35_Witness ==
    /\ Len(responseChan) = ChanCap
    /\ \E k \in QueueKeys : Blocked(k) /\ k \in pending /\ k \notin cache

\* C36: from the moment the details of the round's target are stored until
\* the guess of the round is accepted, the info panel never shows the label
\* that is the round's answer in clear: it shows "???".
C36_AnswerMasked ==
    RoundDetailsShown
        => IF isInbound(resolvedDetails[1].RealDestination)
           THEN showOrigin = "???"
           ELSE showDest = "???"

\* C37: once the client holds an access token, no FetchFlights call clears
\* or replaces it or asks the token endpoint again, whatever the
\* state-vector endpoint answers; the token changes only once, from none to
\* the one obtained.
C37_TokenObtainedOnce ==
    [][/\ token # ""
            => /\ token' = token
               /\ FetchCalled => \A i \in 1..Len(netCalls') : netCalls'[i] # "token"
       /\ token' # token
            => /\ token = ""
               /\ FetchCalled
               /\ netCalls'[1] = "token"]_vars

\* a later query, sent with the token, is refused with a non-200 status
C37_Witness ==
    /\ token # ""
    /\ netCalls = <<"states+bearer">>
    /\ fetchErr = "status"
    /\ fetchRet = <<>>

C39_EveryPositionedRecordParsed ==
    [][\A auth \in AuthOutcomes, resp \in Responses :
         (refreshFlights(auth, resp) /\ ~CacheFresh /\ resp.kind = "ok")
         => /\ fetchErr' = "none"
            /\ fetchRet' = ParseStates(resp.states)]_vars

\* C40: every GetTile call of drawMap at zoom z has 0 <= x < 2^z, x being
\* the tile column of the screen modulo 2^z, and 0 <= y < 2^z; no tile of a
\* row below 0 or from 2^z on is asked for or fetched.
C40_TilesWithinTheMap ==
    /\ drawCall # <<>>
         => LET n == 2^drawCall[1].zoom
            IN \A t \in drawCall[1].tiles :
                 /\ t.key.Z = drawCall[1].zoom
                 /\ t.key.X \in 0..(n - 1)
                 /\ t.key.X = t.col % n
                 /\ t.key.Y \in 0..(n - 1)
                 /\ t.key.Y = t.row
    /\ \A k \in DOMAIN fetching :
         (fetching[k] + fetchStarted[k] > 0 \/ k \in pending)
         => /\ k.X \in 0..(2^k.Z - 1)
            /\ k.Y \in 0..(2^k.Z - 1)

\* the view hangs over the left and the upper edge of the map: columns are
\* wrapped and rows are left out
C40_Witness ==
    /\ drawCall # <<>>
    /\ drawCall[1].centerY < logicalHeight \div 2
    /\ \E t \in drawCall[1].tiles : t.col < 0 /\ t.key.X = 2^drawCall[1].zoom + t.col
    /\ \E k \in DOMAIN fetching : fetching[k] + fetchStarted[k] > 0

====
